---- MODULE Spec2Model ----
\* Model of the embody-file stream decoder: src/src/embodyfile/parser.py
\*   read_data, _read_data_in_memory, __convert_block_messages_to_pulse_list.
\*
\* One action per branch of the decode loop's dispatch (one decoded message per
\* step), one per step of the block reassembly, and the final assembly of the
\* Data result by read_data.
\* Spec takes the input as a stream of decoded messages; CursorSpec takes it as
\* a file of bytes read in chunks, with the buffer, pos and total_pos of the
\* decode loop, and runs the same branches behind a model codec.
\*
\* Absolute timestamps are millisecond epochs (about 1.7 * 10^12) and do not fit
\* the model checker's integers, so an integer x is held as the pair
\*   [hi |-> x >> 16, lo |-> x & 0xFFFF]      (x = hi * 65536 + lo, 0 <= lo < 65536)
\* with Python's flooring shift, so hi is negative for a negative x.
EXTENDS Integers, Sequences, FiniteSets, TLC

\* ---------------------------------------------------------------- bounds

\* Longest input stream, in messages (unknown bytes count as one).
MaxMsgs == 4

\* Longest input stream given byte by byte, in bytes.
MaxBytes == 5

\* ------------------------------------------------------ integers as pairs

TS(h, l) == [hi |-> h, lo |-> l]

Zero == TS(0, 0)

\* a < b
TsLess(a, b) == a.hi < b.hi \/ (a.hi = b.hi /\ a.lo < b.lo)

\* a + n, for an integer n (either sign)
TsPlus(a, n) == TS(a.hi + ((a.lo + n) \div 65536), (a.lo + n) % 65536)

\* a - b, saturated at +-Far: every use compares the difference with a
\* threshold of a few milliseconds, and two values whose high parts differ by
\* two or more are at least 65536 apart.
Far == 3 * 65536

TsMinus(a, b) ==
    IF a.hi - b.hi > 1 THEN Far
    ELSE IF a.hi - b.hi < -1 THEN -Far
    ELSE (a.hi - b.hi) * 65536 + a.lo - b.lo

\* Python's int() of the quotient n / d (d > 0): truncation toward zero.
TruncDiv(n, d) == IF n >= 0 THEN n \div d ELSE -((-n) \div d)

\* datetime(1999, 10, 1).timestamp() * 1000 = 938736000000
MIN_TIMESTAMP == TS(14323974, 39936)

\* datetime(2036, 10, 1).timestamp() * 1000 = 2106432000000
MAX_TIMESTAMP == TS(32141601, 36864)

\* --------------------------------------------------------------- messages

Header(fw, time) ==
    [type |-> "Header", firmware_version |-> fw, current_time |-> time]

Timestamp(time) == [type |-> "Timestamp", current_time |-> time]

PulseBlockEcg(ch, time, samples) ==
    [type |-> "PulseBlockEcg", channel |-> ch, time |-> time, samples |-> samples]

PulseBlockPpg(ch, time, samples) ==
    [type |-> "PulseBlockPpg", channel |-> ch, time |-> time, samples |-> samples]

PpgRaw(tick, ecg, ppg) ==
    [type |-> "PpgRaw", two_lsb_of_timestamp |-> tick, ecg |-> ecg, ppg |-> ppg]

PpgRawAll(tick, ecg, ppg, red, ir) ==
    [type |-> "PpgRawAll", two_lsb_of_timestamp |-> tick, ecg |-> ecg,
     ppg |-> ppg, ppg_red |-> red, ppg_ir |-> ir]

PulseRawList(tick, ecgs, ppgs) ==
    [type |-> "PulseRawList", two_lsb_of_timestamp |-> tick,
     no_of_ecgs |-> Len(ecgs), no_of_ppgs |-> Len(ppgs), ecgs |-> ecgs, ppgs |-> ppgs]

\* relative_gain is a float on the wire; the model holds it as the exact
\* fraction gain_num / gain_den.
AfeSettings(tick, off_dac, gain_num, gain_den) ==
    [type |-> "AfeSettings", two_lsb_of_timestamp |-> tick, off_dac |-> off_dac,
     gain_num |-> gain_num, gain_den |-> gain_den]

\* The two legacy encodings of the AFE settings are message classes of their
\* own; the fields the decoder could read are given the names of AfeSettings.
AfeSettingsOld(tick, off_dac, gain_num, gain_den) ==
    [type |-> "AfeSettingsOld", two_lsb_of_timestamp |-> tick, off_dac |-> off_dac,
     gain_num |-> gain_num, gain_den |-> gain_den]

AfeSettingsAll(tick, off_dac, gain_num, gain_den) ==
    [type |-> "AfeSettingsAll", two_lsb_of_timestamp |-> tick, off_dac |-> off_dac,
     gain_num |-> gain_num, gain_den |-> gain_den]

ImuRaw(tick, acc, gyr) ==
    [type |-> "ImuRaw", two_lsb_of_timestamp |-> tick,
     acc_x |-> acc[1], acc_y |-> acc[2], acc_z |-> acc[3],
     gyr_x |-> gyr[1], gyr_y |-> gyr[2], gyr_z |-> gyr[3]]

AccRaw(tick, acc) ==
    [type |-> "AccRaw", two_lsb_of_timestamp |-> tick,
     acc_x |-> acc[1], acc_y |-> acc[2], acc_z |-> acc[3]]

GyroRaw(tick, gyr) ==
    [type |-> "GyroRaw", two_lsb_of_timestamp |-> tick,
     gyr_x |-> gyr[1], gyr_y |-> gyr[2], gyr_z |-> gyr[3]]

Temperature(tick, temp) ==
    [type |-> "Temperature", two_lsb_of_timestamp |-> tick, temp_raw |-> temp]

\* The byte at the cursor is no message tag: decode_message raises LookupError.
UnknownByte == [type |-> "Unknown"]

Types ==
    {"Header", "Timestamp", "PulseBlockEcg", "PulseBlockPpg", "PpgRaw", "PpgRawAll",
     "PulseRawList", "AfeSettings", "AfeSettingsOld", "AfeSettingsAll", "ImuRaw",
     "AccRaw", "GyroRaw", "Temperature", "HeartRate", "BatteryDiagnostics"}

\* msg.two_lsb_of_timestamp if isinstance(msg, TimetickedMessage) and
\* msg.two_lsb_of_timestamp else 0
TwoLsb(msg) ==
    IF "two_lsb_of_timestamp" \in DOMAIN msg THEN msg.two_lsb_of_timestamp ELSE 0

\* Python's tuple comparison v >= w of two firmware versions
VersionGE(v, w) ==
    \/ v[1] > w[1]
    \/ v[1] = w[1] /\ v[2] > w[2]
    \/ v[1] = w[1] /\ v[2] = w[2] /\ v[3] >= w[3]

\* ----------------------------------------------------------- input streams
\* The input file is any stream of at most MaxMsgs items over the alphabet of
\* its family; a family also fixes the samplerate argument of read_data.

T0 == TS(25939941, 26624)            \* 1700000000000
TOld == TS(0, 70)                    \* a device clock that was never set
TFuture == TsPlus(MAX_TIMESTAMP, 1)
B0 == TS(25939941, 30000)            \* a block start time

FW400 == <<4, 0, 0>>
FW401 == <<4, 0, 1>>
FW500 == <<5, 0, 0>>

\* ------------------------------------------------------------------ codec
\* file_codec is a library outside the repository. For the streams that are
\* given byte by byte (family "bytes") the model holds a codec with the
\* contract the decoder relies on: decode_message(data, version) returns the
\* one message at the start of data, raises LookupError when the first byte is
\* no message tag, and raises BufferError when data ends before the message
\* does; msg.length(version) is the length of the message body, the tag byte
\* not counted. The byte layouts are the model's own:
\*   tag 1  Header       body <<a>>      firmware (a, 0, 0), time chosen by a
\*   tag 2  Timestamp    body <<a>>      time chosen by a
\*   tag 3  Temperature  body <<a>> before a Header and for firmware 0 and 1,
\*                       body <<a, b>> for firmware 2 and 3; tick 100 * a (+ b)
\*   tag 0  no message
Bytes == 0..3

\* The times a Header or Timestamp body byte stands for.
TimeOfByte(b) ==
    CASE b = 0 -> TOld
      [] b = 1 -> T0
      [] b = 2 -> TsPlus(T0, 5000)
      [] b = 3 -> TFuture

\* The message class a tag byte stands for.
TypeOfTag(tag) ==
    CASE tag = 1 -> "Header"
      [] tag = 2 -> "Timestamp"
      [] tag = 3 -> "Temperature"

\* msg.length(version)
MessageLength(msg, v) ==
    CASE msg.type = "Header" -> 1
      [] msg.type = "Timestamp" -> 1
      [] msg.type = "Temperature" -> IF v # <<>> /\ v[1] >= 2 THEN 2 ELSE 1

\* except BufferError: not enough bytes available
InsufficientBytes == [type |-> "BufferError"]

\* file_codec.decode_message(data, version), for a non-empty data
DecodeMessage(data, v) ==
    IF data[1] \notin 1..3
    THEN UnknownByte
    ELSE IF Len(data) < 1 + MessageLength([type |-> TypeOfTag(data[1])], v)
    THEN InsufficientBytes
    ELSE CASE data[1] = 1 -> Header(<<data[2], 0, 0>>, TimeOfByte(data[2]))
           [] data[1] = 2 -> Timestamp(TimeOfByte(data[2]))
           [] data[1] = 3 ->
                Temperature(100 * data[2] + (IF Len(data) >= 3 /\ v # <<>> /\ v[1] >= 2
                                             THEN data[3] ELSE 0), 20)

Families ==
    {"ppg", "wrap", "sync", "ecg_drift", "ppg_drift", "channels", "afe", "imu", "floor",
     "ecg_250", "ppg_125", "dense"}

Alphabet(fam) ==
    CASE fam = "ppg" ->
           {Header(FW400, T0), Header(FW401, T0), Header(FW500, T0),
            AfeSettings(200, 10, 2, 1), AfeSettings(200, 3, 3, 2),
            PpgRaw(100, 1, 5),
            PpgRawAll(100, 1, 5, 6, 7), PpgRawAll(101, 2, 15, 16, 17),
            PpgRawAll(102, 3, 25, 26, 27)}
      [] fam = "wrap" ->
           {Header(FW500, T0), Header(FW500, TOld)}
           \cup {Temperature(t, 20) : t \in {0, 99, 100, 1100, 65000, 65001}}
      [] fam = "sync" ->
           {Header(FW500, T0), Header(FW500, TFuture),
            Timestamp(TsPlus(T0, 5000)), Timestamp(TsPlus(T0, -1)), Timestamp(TFuture),
            Temperature(99, 20), Temperature(65001, 20), UnknownByte}
      [] fam = "ecg_drift" ->
           {Header(FW500, T0), PulseBlockPpg(0, B0, <<9>>),
            PulseBlockEcg(0, Zero, <<4>>), PulseBlockEcg(0, B0, <<7, 8>>),
            PulseBlockEcg(0, TsPlus(B0, 2), <<5>>), PulseBlockEcg(0, TsPlus(B0, 7), <<6>>),
            PulseBlockEcg(0, TsPlus(B0, 8), <<3>>)}
      [] fam = "ppg_drift" ->
           {Header(FW500, T0), PulseBlockEcg(0, B0, <<9>>),
            PulseBlockPpg(0, Zero, <<4>>), PulseBlockPpg(0, B0, <<7, 8>>),
            PulseBlockPpg(0, TsPlus(B0, 4), <<5>>), PulseBlockPpg(0, TsPlus(B0, 9), <<6>>),
            PulseBlockPpg(0, TsPlus(B0, 10), <<3>>)}
      [] fam = "channels" ->
           {Header(FW500, T0), PulseRawList(100, <<1>>, <<2>>), UnknownByte,
            PulseBlockEcg(0, B0, <<7>>), PulseBlockEcg(1, B0, <<8>>),
            PulseBlockEcg(1, TsPlus(B0, 1), <<3>>),
            PulseBlockPpg(0, B0, <<9>>), PulseBlockPpg(1, TsPlus(B0, 1), <<4>>)}
      [] fam = "afe" ->
           {Header(FW500, T0), Header(FW400, T0), PpgRaw(100, 1, 5),
            PulseRawList(100, <<1>>, <<2>>),
            AfeSettings(200, 3, 3, 2), AfeSettingsOld(200, 10, 2, 1),
            AfeSettingsAll(200, 7, 1, 1)}
      [] fam = "imu" ->
           {Header(FW500, T0),
            ImuRaw(100, <<1, 2, 3>>, <<4, 5, 6>>), ImuRaw(101, <<11, 12, 13>>, <<14, 15, 16>>),
            AccRaw(102, <<7, 8, 9>>), GyroRaw(103, <<17, 18, 19>>)}
      [] fam = "floor" ->
           {Header(FW500, TsPlus(MIN_TIMESTAMP, -936)), Header(FW500, MIN_TIMESTAMP),
            Temperature(100, 20), Temperature(40000, 20),
            PulseBlockEcg(0, B0, <<7>>), PulseBlockPpg(0, B0, <<9>>)}
      [] fam = "ecg_250" ->
           {Header(FW500, T0), PulseBlockPpg(0, B0, <<9>>),
            PulseBlockEcg(0, Zero, <<4>>), PulseBlockEcg(0, B0, <<7, 8>>),
            PulseBlockEcg(0, TsPlus(B0, 2), <<5>>), PulseBlockEcg(0, TsPlus(B0, 12), <<6>>),
            PulseBlockEcg(0, TsPlus(B0, 14), <<3>>)}
      [] fam = "ppg_125" ->
           {Header(FW500, T0), PulseBlockEcg(0, B0, <<9>>),
            PulseBlockPpg(0, Zero, <<4>>), PulseBlockPpg(0, B0, <<7, 8>>),
            PulseBlockPpg(0, TsPlus(B0, 2), <<5>>), PulseBlockPpg(0, TsPlus(B0, 20), <<6>>),
            PulseBlockPpg(0, TsPlus(B0, 22), <<3>>)}
      [] fam = "dense" ->
           {Header(FW500, T0), PulseBlockEcg(0, B0, <<7, 8>>), PulseBlockEcg(1, B0, <<5>>),
            PulseBlockPpg(0, B0, <<9, 4>>), PulseBlockPpg(1, B0, <<6>>)}
      [] fam = "bytes" ->
           {Header(<<a, 0, 0>>, TimeOfByte(a)) : a \in Bytes}
           \cup {Timestamp(TimeOfByte(a)) : a \in Bytes}
           \cup {Temperature(100 * a + b, 20) : a \in Bytes, b \in Bytes}
           \cup {UnknownByte}

Samplerate(fam) ==
    CASE fam = "ppg_drift" -> 500
      [] fam = "ecg_250" -> 250
      [] fam = "ppg_125" -> 125
      [] fam = "dense" -> 2000
      [] OTHER -> 1000

\* ------------------------------------------------------------------ state

VARIABLES
    family,               \* the family the input file is drawn from
    fail_on_errors,       \* argument of read_data (strict mode)
    samplerate,           \* argument of read_data
    nread,                \* items of the stream consumed so far
    event,                \* the item the last step consumed, and what was done with it
    current_off_dac,
    start_timestamp,
    last_full_timestamp,
    current_timestamp,
    prev_timestamp,
    unknown_msgs,
    too_old_msgs,
    total_messages,
    logged,               \* the anomalies logged so far (logging.warning / logging.info)
    lsb_wrap_counter,
    collections,          \* message type -> sequence of stored entries
    version,              \* <<>> models None
    header_found,
    pc,                   \* "decode", "ecg_check", "ecg_assign", "ppg_check",
                          \* "ppg_assign", "convert_finish", "done"
    result,               \* what read_data returned or raised; NoResult before that
    \* locals of __convert_block_messages_to_pulse_list; the lists are
    \* functions of the channel index 0 .. max - 1
    max_ecg_channels,
    max_ppg_channels,
    locked_initial_ecg_timestamp,
    ecg_sample_counters,
    ecg_early_counters,
    ecg_late_counters,
    dup_ecg_timestamps,
    locked_initial_ppg_timestamp,
    ppg_sample_counters,
    ppg_early_counters,
    ppg_late_counters,
    dup_ppg_timestamps,
    merged_data,          \* the dict, as its items in insertion order
    blk,                  \* index of the block the loop is at
    written,              \* the slots <<kind, channel, samplestamp>> assigned so far
    stream,               \* family "bytes": the bytes of the file f
    fpos,                 \* the file position of f: the bytes read so far
    chunk,
    size,
    pos,
    total_pos,
    processed,            \* the decoded items of this pass, each with its start_pos_of_current_msg
    pass,                 \* family "bytes": 1 in the first call of read_data, 2 in the second
    first                 \* what the first call processed, stored and gave back

inputVars == <<family, fail_on_errors, samplerate>>

timeVars ==
    <<start_timestamp, last_full_timestamp, current_timestamp, prev_timestamp,
      lsb_wrap_counter>>

countVars == <<unknown_msgs, too_old_msgs, total_messages, logged>>

decodeVars ==
    <<current_off_dac, timeVars, countVars, collections, version, header_found>>

ecgVars ==
    <<locked_initial_ecg_timestamp, ecg_sample_counters, ecg_early_counters,
      ecg_late_counters, dup_ecg_timestamps>>

ppgVars ==
    <<locked_initial_ppg_timestamp, ppg_sample_counters, ppg_early_counters,
      ppg_late_counters, dup_ppg_timestamps>>

convVars ==
    <<max_ecg_channels, max_ppg_channels, ecgVars, ppgVars, merged_data, blk, written>>

cursorVars == <<stream, fpos, chunk, size, pos, total_pos, processed, pass, first>>

vars == <<inputVars, nread, event, decodeVars, pc, result, convVars, cursorVars>>

NoResult == [kind |-> "none"]

Raised(exc, why) == [kind |-> "raised", exc |-> exc, why |-> why]

Returned(data) == [kind |-> "returned", data |-> data]

NoEvent == [kind |-> "none"]

\* A stored entry is the tuple (timestamp, msg) of the code. Two fields are
\* added for the statement of properties: at, the arrival index of the message
\* in the stream, and wire, the message as the codec decoded it (msg is
\* corrected in place by the decode pass).
Entry(t, msg, at, wire) == [t |-> t, msg |-> msg, at |-> at, wire |-> wire]

\* The message put at the front of the sequence of its type.
AddMsgAtFront(c, t, msg, at, wire) ==
    [c EXCEPT ![msg.type] = <<Entry(t, msg, at, wire)>> \o @]

\* collections.setdefault(msg_class, []).append((current_timestamp, msg))
\* A key holds the empty sequence exactly when the dict has no such key, until
\* reassembly assigns the block keys an empty list.
AddMsgToCollections(c, t, msg, at, wire) ==
    [c EXCEPT ![msg.type] = Append(@, Entry(t, msg, at, wire))]

\* The locals of _read_data_in_memory as lines 94-117 initialise them, and the
\* locals of the reassembly before it starts.
InitLocals ==
    /\ nread = 0
    /\ event = NoEvent
    /\ current_off_dac = 0
    /\ start_timestamp = Zero
    /\ last_full_timestamp = Zero
    /\ current_timestamp = Zero
    /\ prev_timestamp = Zero
    /\ unknown_msgs = 0
    /\ too_old_msgs = 0
    /\ total_messages = 0
    /\ logged = {}
    /\ lsb_wrap_counter = 0
    /\ collections = [ty \in Types |-> <<>>]
    /\ version = <<>>
    /\ header_found = FALSE
    /\ result = NoResult
    /\ max_ecg_channels = 0
    /\ max_ppg_channels = 0
    /\ locked_initial_ecg_timestamp = <<>>
    /\ ecg_sample_counters = <<>>
    /\ ecg_early_counters = <<>>
    /\ ecg_late_counters = <<>>
    /\ dup_ecg_timestamps = <<>>
    /\ locked_initial_ppg_timestamp = <<>>
    /\ ppg_sample_counters = <<>>
    /\ ppg_early_counters = <<>>
    /\ ppg_late_counters = <<>>
    /\ dup_ppg_timestamps = <<>>
    /\ merged_data = <<>>
    /\ blk = 0
    /\ written = {}
    /\ chunk = <<>>
    /\ size = 0
    /\ pos = 0
    /\ total_pos = 0
    /\ processed = <<>>

Init ==
    /\ family \in Families
    /\ fail_on_errors \in BOOLEAN
    /\ samplerate = Samplerate(family)
    /\ InitLocals
    /\ pc = "decode"
    /\ stream = <<>>
    /\ fpos = 0
    /\ pass = 0
    /\ first = NoResult

\* The codec decodes msg at the cursor: an item of the family's alphabet, or,
\* for a stream given byte by byte, what decode_message(chunk[pos:], version)
\* returns in the loop "while pos < size".
Decoded(msg) ==
    /\ pc = "decode"
    /\ IF family = "bytes"
       THEN /\ pos < size
            /\ msg = DecodeMessage(SubSeq(chunk, pos + 1, Len(chunk)), version)
            /\ processed' = Append(processed, [at |-> total_pos + pos, msg |-> msg])
       ELSE /\ nread < MaxMsgs
            /\ msg \in Alphabet(family)
            /\ UNCHANGED processed
    /\ nread' = nread + 1
    /\ UNCHANGED <<inputVars, convVars, stream, fpos, chunk, size, total_pos, pass, first>>

\* A position that moves on by the body of the message and not by its tag.
PosAfterBodyOnly(msg) ==
    pos' = IF family # "bytes" THEN pos
           ELSE IF pc' = "done" THEN pos
           ELSE pos + MessageLength(msg, version)

\* pos += 1 after the decode and pos += msg_len in the branch that handles the
\* message, msg_len being msg.length(version) with the version the message was
\* decoded under; a raise comes before the second. Other families have no
\* byte positions.
PosAfter(msg) ==
    pos' = IF family # "bytes" THEN pos
           ELSE IF pc' = "done" THEN pos + 1
           ELSE pos + 1 + MessageLength(msg, version)

\* An exception leaves _read_data_in_memory: its locals are gone, read_data
\* returns nothing.
Raise(exc, why) ==
    /\ result' = Raised(exc, why)
    /\ pc' = "done"
    /\ UNCHANGED decodeVars

\* An unknown byte after which the loop waits for a Header again.
ReadUnknownForgettingHeader ==
    /\ Decoded(UnknownByte)
    /\ event' = [kind |-> "unknown", msg |-> UnknownByte]
    /\ IF fail_on_errors
       THEN Raise("LookupError", "unknown_message_type")
       ELSE /\ unknown_msgs' = unknown_msgs + 1
            /\ logged' = logged \cup {"unknown_message_type"}
            /\ header_found' = FALSE
            /\ UNCHANGED <<current_off_dac, timeVars, too_old_msgs, total_messages,
                           collections, version, pc, result>>
    /\ pos' = IF family = "bytes" /\ ~fail_on_errors THEN pos + 1 ELSE pos

\* An unknown byte that the cursor does not move past.
ReadUnknownStuck ==
    /\ Decoded(UnknownByte)
    /\ event' = [kind |-> "unknown", msg |-> UnknownByte]
    /\ IF fail_on_errors
       THEN Raise("LookupError", "unknown_message_type")
       ELSE /\ unknown_msgs' = unknown_msgs + 1
            /\ logged' = logged \cup {"unknown_message_type"}
            /\ UNCHANGED <<current_off_dac, timeVars, too_old_msgs, total_messages,
                           collections, version, header_found, pc, result>>
    /\ pos' = pos

\* except LookupError: unknown message type
ReadUnknown ==
    /\ Decoded(UnknownByte)
    /\ event' = [kind |-> "unknown", msg |-> UnknownByte]
    /\ IF fail_on_errors
       THEN Raise("LookupError", "unknown_message_type")
       ELSE /\ unknown_msgs' = unknown_msgs + 1
            /\ logged' = logged \cup {"unknown_message_type"}
            /\ UNCHANGED <<current_off_dac, timeVars, too_old_msgs, total_messages,
                           collections, version, header_found, pc, result>>
    /\ pos' = IF family = "bytes" /\ ~fail_on_errors THEN pos + 1 ELSE pos

\* A Header that leaves the wrap counter as it is.
ReadHeaderKeepingWraps ==
    \E msg \in Alphabet(family) :
        /\ msg.type = "Header"
        /\ Decoded(msg)
        /\ event' = [kind |-> "header", msg |-> msg]
        /\ header_found' = TRUE
        /\ version' = msg.firmware_version
        /\ UNCHANGED <<current_off_dac, prev_timestamp, unknown_msgs, too_old_msgs,
                       total_messages>>
        /\ IF TsLess(MAX_TIMESTAMP, msg.current_time)
           THEN /\ UNCHANGED <<last_full_timestamp, current_timestamp, start_timestamp,
                               lsb_wrap_counter>>
                /\ IF fail_on_errors
                   THEN /\ result' = Raised("LookupError", "header_in_future")
                        /\ pc' = "done"
                        /\ UNCHANGED <<collections, logged>>
                   ELSE /\ logged' = logged \cup {"header_in_future"}
                        /\ collections' =
                             AddMsgToCollections(collections, current_timestamp, msg,
                                                 nread', msg)
                        /\ UNCHANGED <<pc, result>>
           ELSE /\ UNCHANGED logged
                /\ last_full_timestamp' = msg.current_time
                /\ current_timestamp' = msg.current_time
                /\ start_timestamp' = msg.current_time
                /\ lsb_wrap_counter' = lsb_wrap_counter
                /\ collections' =
                     AddMsgToCollections(collections, msg.current_time, msg, nread', msg)
                /\ UNCHANGED <<pc, result>>
        /\ PosAfter(msg)

\* A Header above the ceiling that is logged and not stored.
ReadHeaderDroppingFuture ==
    \E msg \in Alphabet(family) :
        /\ msg.type = "Header"
        /\ Decoded(msg)
        /\ event' = [kind |-> "header", msg |-> msg]
        /\ header_found' = TRUE
        /\ version' = msg.firmware_version
        /\ UNCHANGED <<current_off_dac, prev_timestamp, unknown_msgs, too_old_msgs,
                       total_messages>>
        /\ IF TsLess(MAX_TIMESTAMP, msg.current_time)
           THEN /\ UNCHANGED <<last_full_timestamp, current_timestamp, start_timestamp,
                               lsb_wrap_counter>>
                /\ IF fail_on_errors
                   THEN /\ result' = Raised("LookupError", "header_in_future")
                        /\ pc' = "done"
                        /\ UNCHANGED <<collections, logged>>
                   ELSE /\ logged' = logged \cup {"header_in_future"}
                        /\ UNCHANGED collections
                        /\ UNCHANGED <<pc, result>>
           ELSE /\ UNCHANGED logged
                /\ last_full_timestamp' = msg.current_time
                /\ current_timestamp' = msg.current_time
                /\ start_timestamp' = msg.current_time
                /\ lsb_wrap_counter' = 0
                /\ collections' =
                     AddMsgToCollections(collections, msg.current_time, msg, nread', msg)
                /\ UNCHANGED <<pc, result>>
        /\ PosAfter(msg)

\* if isinstance(msg, file_codec.Header)
\* (header_found and version are assigned before the timestamp is checked)
ReadHeader ==
    \E msg \in Alphabet(family) :
        /\ msg.type = "Header"
        /\ Decoded(msg)
        /\ event' = [kind |-> "header", msg |-> msg]
        /\ header_found' = TRUE
        /\ version' = msg.firmware_version
        /\ UNCHANGED <<current_off_dac, prev_timestamp, unknown_msgs, too_old_msgs,
                       total_messages>>
        /\ IF TsLess(MAX_TIMESTAMP, msg.current_time)
           THEN /\ UNCHANGED <<last_full_timestamp, current_timestamp, start_timestamp,
                               lsb_wrap_counter>>
                /\ IF fail_on_errors
                   THEN /\ result' = Raised("LookupError", "header_in_future")
                        /\ pc' = "done"
                        /\ UNCHANGED <<collections, logged>>
                   ELSE /\ logged' = logged \cup {"header_in_future"}
                        /\ collections' =
                             AddMsgToCollections(collections, current_timestamp, msg,
                                                 nread', msg)
                        /\ UNCHANGED <<pc, result>>
           ELSE /\ UNCHANGED logged
                /\ last_full_timestamp' = msg.current_time
                /\ current_timestamp' = msg.current_time
                /\ start_timestamp' = msg.current_time
                /\ lsb_wrap_counter' = 0
                /\ collections' =
                     AddMsgToCollections(collections, msg.current_time, msg, nread', msg)
                /\ UNCHANGED <<pc, result>>
        /\ PosAfter(msg)

\* A decode loop that stores what it skips.
ReadBeforeHeaderStoring ==
    \E msg \in Alphabet(family) :
        /\ msg.type \notin {"Header", "Unknown"}
        /\ ~header_found
        /\ Decoded(msg)
        /\ event' = [kind |-> "skipped", msg |-> msg]
        /\ collections' = AddMsgToCollections(collections, current_timestamp, msg,
                                              nread', msg)
        /\ UNCHANGED <<current_off_dac, timeVars, countVars, version, header_found,
                       pc, result>>
        /\ PosAfter(msg)

\* elif not header_found
ReadBeforeHeader ==
    \E msg \in Alphabet(family) :
        /\ msg.type \notin {"Header", "Unknown"}
        /\ ~header_found
        /\ Decoded(msg)
        /\ event' = [kind |-> "skipped", msg |-> msg]
        /\ UNCHANGED <<decodeVars, pc, result>>
        /\ PosAfter(msg)

\* A sync that is adopted whenever it is not above the ceiling.
ReadTimestampAnyOrder ==
    \E msg \in Alphabet(family) :
        /\ msg.type = "Timestamp"
        /\ header_found
        /\ Decoded(msg)
        /\ event' = [kind |-> "sync", msg |-> msg]
        /\ IF TsLess(MAX_TIMESTAMP, msg.current_time)
           THEN IF fail_on_errors
                THEN Raise("LookupError", "sync_in_future")
                ELSE /\ logged' = logged \cup {"sync_in_future"}
                     /\ collections' =
                          AddMsgToCollections(collections, current_timestamp, msg,
                                              nread', msg)
                     /\ UNCHANGED <<current_off_dac, timeVars, unknown_msgs, too_old_msgs,
                                    total_messages, version, header_found, pc, result>>
           ELSE IF FALSE
           THEN IF fail_on_errors
                THEN Raise("LookupError", "sync_before_last_full")
                ELSE /\ logged' = logged \cup {"sync_before_last_full"}
                     /\ collections' =
                          AddMsgToCollections(collections, current_timestamp, msg,
                                              nread', msg)
                     /\ UNCHANGED <<current_off_dac, timeVars, unknown_msgs, too_old_msgs,
                                    total_messages, version, header_found, pc, result>>
           ELSE /\ last_full_timestamp' = msg.current_time
                /\ current_timestamp' = msg.current_time
                /\ lsb_wrap_counter' = 0
                /\ collections' =
                     AddMsgToCollections(collections, msg.current_time, msg, nread', msg)
                /\ UNCHANGED <<current_off_dac, start_timestamp, prev_timestamp,
                               countVars, version, header_found, pc, result>>
        /\ PosAfter(msg)

\* A rejected sync that is logged and not stored.
ReadTimestampDroppingRejected ==
    \E msg \in Alphabet(family) :
        /\ msg.type = "Timestamp"
        /\ header_found
        /\ Decoded(msg)
        /\ event' = [kind |-> "sync", msg |-> msg]
        /\ IF TsLess(MAX_TIMESTAMP, msg.current_time)
           THEN IF fail_on_errors
                THEN Raise("LookupError", "sync_in_future")
                ELSE /\ logged' = logged \cup {"sync_in_future"}
                     /\ collections' =
                          AddMsgToCollections(collections, current_timestamp, msg,
                                              nread', msg)
                     /\ UNCHANGED <<current_off_dac, timeVars, unknown_msgs, too_old_msgs,
                                    total_messages, version, header_found, pc, result>>
           ELSE IF TsLess(msg.current_time, last_full_timestamp)
           THEN IF fail_on_errors
                THEN Raise("LookupError", "sync_before_last_full")
                ELSE /\ logged' = logged \cup {"sync_before_last_full"}
                     /\ UNCHANGED collections
                     /\ UNCHANGED <<current_off_dac, timeVars, unknown_msgs, too_old_msgs,
                                    total_messages, version, header_found, pc, result>>
           ELSE /\ last_full_timestamp' = msg.current_time
                /\ current_timestamp' = msg.current_time
                /\ lsb_wrap_counter' = 0
                /\ collections' =
                     AddMsgToCollections(collections, msg.current_time, msg, nread', msg)
                /\ UNCHANGED <<current_off_dac, start_timestamp, prev_timestamp,
                               countVars, version, header_found, pc, result>>
        /\ PosAfter(msg)

\* elif isinstance(msg, file_codec.Timestamp)
ReadTimestamp ==
    \E msg \in Alphabet(family) :
        /\ msg.type = "Timestamp"
        /\ header_found
        /\ Decoded(msg)
        /\ event' = [kind |-> "sync", msg |-> msg]
        /\ IF TsLess(MAX_TIMESTAMP, msg.current_time)
           THEN IF fail_on_errors
                THEN Raise("LookupError", "sync_in_future")
                ELSE /\ logged' = logged \cup {"sync_in_future"}
                     /\ collections' =
                          AddMsgToCollections(collections, current_timestamp, msg,
                                              nread', msg)
                     /\ UNCHANGED <<current_off_dac, timeVars, unknown_msgs, too_old_msgs,
                                    total_messages, version, header_found, pc, result>>
           ELSE IF TsLess(msg.current_time, last_full_timestamp)
           THEN IF fail_on_errors
                THEN Raise("LookupError", "sync_before_last_full")
                ELSE /\ logged' = logged \cup {"sync_before_last_full"}
                     /\ collections' =
                          AddMsgToCollections(collections, current_timestamp, msg,
                                              nread', msg)
                     /\ UNCHANGED <<current_off_dac, timeVars, unknown_msgs, too_old_msgs,
                                    total_messages, version, header_found, pc, result>>
           ELSE /\ last_full_timestamp' = msg.current_time
                /\ current_timestamp' = msg.current_time
                /\ lsb_wrap_counter' = 0
                /\ collections' =
                     AddMsgToCollections(collections, msg.current_time, msg, nread', msg)
                /\ UNCHANGED <<current_off_dac, start_timestamp, prev_timestamp,
                               countVars, version, header_found, pc, result>>
        /\ PosAfter(msg)

\* A block stored under current_timestamp.
ReadBlockUnderCurrent ==
    \E msg \in Alphabet(family) :
        /\ msg.type \in {"PulseBlockEcg", "PulseBlockPpg"}
        /\ header_found
        /\ Decoded(msg)
        /\ event' = [kind |-> "block", msg |-> msg]
        /\ total_messages' = total_messages + 1
        /\ collections' = AddMsgToCollections(collections, current_timestamp, msg, nread', msg)
        /\ UNCHANGED <<current_off_dac, timeVars, unknown_msgs, too_old_msgs, logged,
                       version, header_found, pc, result>>
        /\ PosAfter(msg)

\* elif isinstance(msg, PulseBlockEcg) or isinstance(msg, PulseBlockPpg)
\* (max_ecg_channels and max_ppg_channels of the decode pass are not held: the
\* reassembly overwrites both before reading them.)
ReadBlock ==
    \E msg \in Alphabet(family) :
        /\ msg.type \in {"PulseBlockEcg", "PulseBlockPpg"}
        /\ header_found
        /\ Decoded(msg)
        /\ event' = [kind |-> "block", msg |-> msg]
        /\ total_messages' = total_messages + 1
        /\ collections' = AddMsgToCollections(collections, msg.time, msg, nread', msg)
        /\ UNCHANGED <<current_off_dac, timeVars, unknown_msgs, too_old_msgs, logged,
                       version, header_found, pc, result>>
        /\ PosAfter(msg)

\* The wrap step with both thresholds taken inclusively.
WrapStepInclusive(cur, tick) ==
    IF cur.lo >= 65000 /\ tick < 100 THEN 1
    ELSE IF tick >= 65000 /\ cur.lo < 100 THEN -1
    ELSE 0

\* The wrap step with a tick of 0 taken as no tick at all.
WrapStepNonZeroTick(cur, tick) ==
    IF cur.lo > 65000 /\ tick < 100 /\ tick # 0 THEN 1
    ELSE IF tick > 65000 /\ cur.lo < 100 THEN -1
    ELSE 0

\* The wrap step of the tick reconstruction: +1 for a forward wrap, -1 for a
\* backward wrap, applied to bit 16 of current_timestamp and to lsb_wrap_counter.
WrapStep(cur, tick) ==
    IF cur.lo > 65000 /\ tick < 100 THEN 1
    ELSE IF tick > 65000 /\ cur.lo < 100 THEN -1
    ELSE 0

\* The tick applied without carrying the wrap into bit 16.
ReconstructWithoutCarry(cur, tick) == TS(cur.hi, tick)

\* current_timestamp after the wrap step and
\* current_timestamp = current_timestamp >> 16 << 16 | two_lsb_of_timestamp
Reconstruct(cur, tick) == TS(cur.hi + WrapStep(cur, tick), tick)

\* should_adjust_ppg = version and version >= (4, 0, 1)
ShouldAdjustPpg(v) == v # <<>> /\ VersionGE(v, <<4, 0, 1>>)

\* -(ppg + current_off_dac)
AdjustPpg(ppg, off_dac) == -(ppg + off_dac)

\* [-ppg for ppg in msg.ppgs]
NegateAll(ppgs) == [i \in 1..Len(ppgs) |-> -ppgs[i]]

\* The correction with the offset applied to the slots of a pulse list too.
CorrectedWithOffsetInList(msg, v, off_dac) ==
    IF msg.type = "PpgRaw" /\ ShouldAdjustPpg(v)
    THEN [msg EXCEPT !.ppg = AdjustPpg(@, off_dac)]
    ELSE IF msg.type = "PpgRawAll" /\ ShouldAdjustPpg(v)
    THEN [msg EXCEPT !.ppg = AdjustPpg(@, off_dac),
                     !.ppg_red = AdjustPpg(@, off_dac),
                     !.ppg_ir = AdjustPpg(@, off_dac)]
    ELSE IF msg.type = "PulseRawList"
    THEN [msg EXCEPT !.ppgs = [i \in 1..Len(@) |-> AdjustPpg(@[i], off_dac)]]
    ELSE msg

\* The message as stored: PPG-bearing messages are corrected in place.
Corrected(msg, v, off_dac) ==
    IF msg.type = "PpgRaw" /\ ShouldAdjustPpg(v)
    THEN [msg EXCEPT !.ppg = AdjustPpg(@, off_dac)]
    ELSE IF msg.type = "PpgRawAll" /\ ShouldAdjustPpg(v)
    THEN [msg EXCEPT !.ppg = AdjustPpg(@, off_dac),
                     !.ppg_red = AdjustPpg(@, off_dac),
                     !.ppg_ir = AdjustPpg(@, off_dac)]
    ELSE IF msg.type = "PulseRawList"
    THEN [msg EXCEPT !.ppgs = NegateAll(@)]
    ELSE msg

\* The offset rounded down (floor) instead of truncated toward zero.
OffDacOfFloor(afe) == ((-afe.off_dac) * afe.gain_num) \div afe.gain_den

\* current_off_dac = int(-afe.off_dac * afe.relative_gain)
OffDacOf(afe) == TruncDiv((-afe.off_dac) * afe.gain_num, afe.gain_den)

NewOffDac(msg, off_dac) ==
    IF msg.type = "AfeSettings" THEN OffDacOf(msg) ELSE off_dac

\* A jump of 1000 ms or more.
IsJumpInclusive(prev, cur) == TsLess(Zero, prev) /\ ~TsLess(cur, TsPlus(prev, 1000))

\* prev_timestamp > 0 and current_timestamp > prev_timestamp + 1000
IsJump(prev, cur) == TsLess(Zero, prev) /\ TsLess(TsPlus(prev, 1000), cur)

\* every other message: too-old check, tick reconstruction, correction, jump
\* detection, storing. A raise leaves the locals as they are at that line.
ReadTicked ==
    \E msg \in Alphabet(family) :
        /\ msg.type \notin {"Header", "Timestamp", "PulseBlockEcg", "PulseBlockPpg",
                            "Unknown"}
        /\ header_found
        /\ Decoded(msg)
        /\ LET too_old == TsLess(current_timestamp, MIN_TIMESTAMP)
               ts == Reconstruct(current_timestamp, TwoLsb(msg))
               jump == IsJump(prev_timestamp, ts)
           IN  /\ event' = [kind |-> "ticked", msg |-> msg, too_old |-> too_old,
                            jump |-> jump]
               /\ too_old_msgs' = too_old_msgs + (IF too_old THEN 1 ELSE 0)
               /\ logged' =
                    logged \cup (IF too_old /\ ~fail_on_errors
                                 THEN {"timestamp_too_old"} ELSE {})
                           \cup (IF jump /\ ~(too_old /\ fail_on_errors)
                                 THEN {"jump"} ELSE {})
               /\ UNCHANGED <<start_timestamp, last_full_timestamp, unknown_msgs,
                              version, header_found>>
               /\ IF too_old /\ fail_on_errors
                  THEN /\ result' = Raised("LookupError", "timestamp_too_old")
                       /\ pc' = "done"
                       /\ UNCHANGED <<current_off_dac, current_timestamp, prev_timestamp,
                                      lsb_wrap_counter, total_messages, collections>>
                  ELSE /\ lsb_wrap_counter' =
                            lsb_wrap_counter + WrapStep(current_timestamp, TwoLsb(msg))
                       /\ current_timestamp' = ts
                       /\ current_off_dac' = NewOffDac(msg, current_off_dac)
                       /\ IF jump /\ fail_on_errors
                          THEN /\ result' = Raised("LookupError", "jump")
                               /\ pc' = "done"
                               /\ UNCHANGED <<prev_timestamp, total_messages, collections>>
                          ELSE /\ prev_timestamp' = ts
                               /\ total_messages' = total_messages + 1
                               /\ collections' =
                                    AddMsgToCollections(
                                        collections, ts,
                                        Corrected(msg, version, current_off_dac),
                                        nread', msg)
                               /\ UNCHANGED <<pc, result>>
        /\ PosAfter(msg)

\* ---------------------------------------------------------------- read_data

\* A sensor record that takes the red channel of the PpgRawAll message.
AsPpgRawFromRed(e) == [e EXCEPT !.msg = [type |-> "PpgRaw", ecg |-> e.msg.ecg, ppg |-> e.msg.ppg_red]]

\* sensor_data += [(t, file_codec.PpgRaw(d.ecg, d.ppg)) for t, d in ppg_raw_all_list]
AsPpgRaw(e) == [e EXCEPT !.msg = [type |-> "PpgRaw", ecg |-> e.msg.ecg, ppg |-> e.msg.ppg]]

\* (t, AccRaw(d.acc_x, d.acc_y, d.acc_z))
AsAccRaw(e) ==
    [e EXCEPT !.msg = [type |-> "AccRaw", acc_x |-> e.msg.acc_x, acc_y |-> e.msg.acc_y,
                       acc_z |-> e.msg.acc_z]]

\* (t, GyroRaw(d.gyr_x, d.gyr_y, d.gyr_z))
AsGyroRaw(e) ==
    [e EXCEPT !.msg = [type |-> "GyroRaw", gyr_x |-> e.msg.gyr_x, gyr_y |-> e.msg.gyr_y,
                       gyr_z |-> e.msg.gyr_z]]

\* A Data whose AFE settings are the three sequences one after the other.
MakeDataAfeMixed(c) ==
    LET header == c["Header"][1].msg
        afe == c["AfeSettings"] \o c["AfeSettingsOld"] \o c["AfeSettingsAll"]
    IN  [device_info |-> [fw_version |-> header.firmware_version,
                          timestamp |-> header.current_time],
         sensor |-> c["PpgRaw"] \o [i \in 1..Len(c["PpgRawAll"]) |-> AsPpgRaw(c["PpgRawAll"][i])],
         afe |-> afe,
         acc |-> IF c["ImuRaw"] # <<>>
                 THEN [i \in 1..Len(c["ImuRaw"]) |-> AsAccRaw(c["ImuRaw"][i])]
                 ELSE c["AccRaw"],
         gyro |-> IF c["ImuRaw"] # <<>>
                  THEN [i \in 1..Len(c["ImuRaw"]) |-> AsGyroRaw(c["ImuRaw"][i])]
                  ELSE c["GyroRaw"],
         multi_ecg_ppg_data |-> c["PulseRawList"],
         block_data_ecg |-> c["PulseBlockEcg"],
         block_data_ppg |-> c["PulseBlockPpg"],
         temp |-> c["Temperature"],
         hr |-> c["HeartRate"],
         battery_diagnostics |-> c["BatteryDiagnostics"]]

\* A Data whose accelerometer and gyroscope sequences hold the ImuRaw records
\* and the separately stored ones.
MakeDataImuMixed(c) ==
    LET header == c["Header"][1].msg
        afe == IF c["AfeSettings"] # <<>> THEN c["AfeSettings"]
               ELSE IF c["AfeSettingsOld"] # <<>> THEN c["AfeSettingsOld"]
               ELSE c["AfeSettingsAll"]
    IN  [device_info |-> [fw_version |-> header.firmware_version,
                          timestamp |-> header.current_time],
         sensor |-> c["PpgRaw"] \o [i \in 1..Len(c["PpgRawAll"]) |-> AsPpgRaw(c["PpgRawAll"][i])],
         afe |-> afe,
         acc |-> [i \in 1..Len(c["ImuRaw"]) |-> AsAccRaw(c["ImuRaw"][i])] \o c["AccRaw"],
         gyro |-> [i \in 1..Len(c["ImuRaw"]) |-> AsGyroRaw(c["ImuRaw"][i])] \o c["GyroRaw"],
         multi_ecg_ppg_data |-> c["PulseRawList"],
         block_data_ecg |-> c["PulseBlockEcg"],
         block_data_ppg |-> c["PulseBlockPpg"],
         temp |-> c["Temperature"],
         hr |-> c["HeartRate"],
         battery_diagnostics |-> c["BatteryDiagnostics"]]

\* The Data that read_data builds from the collections of the decode pass.
\* fw_version is held as the version tuple that the code joins with ".".
MakeData(c) ==
    LET header == c["Header"][1].msg
        afe == IF c["AfeSettings"] # <<>> THEN c["AfeSettings"]
               ELSE IF c["AfeSettingsOld"] # <<>> THEN c["AfeSettingsOld"]
               ELSE c["AfeSettingsAll"]
    IN  [device_info |-> [fw_version |-> header.firmware_version,
                          timestamp |-> header.current_time],
         sensor |-> c["PpgRaw"] \o [i \in 1..Len(c["PpgRawAll"]) |-> AsPpgRaw(c["PpgRawAll"][i])],
         afe |-> afe,
         acc |-> IF c["ImuRaw"] # <<>>
                 THEN [i \in 1..Len(c["ImuRaw"]) |-> AsAccRaw(c["ImuRaw"][i])]
                 ELSE c["AccRaw"],
         gyro |-> IF c["ImuRaw"] # <<>>
                  THEN [i \in 1..Len(c["ImuRaw"]) |-> AsGyroRaw(c["ImuRaw"][i])]
                  ELSE c["GyroRaw"],
         multi_ecg_ppg_data |-> c["PulseRawList"],
         block_data_ecg |-> c["PulseBlockEcg"],
         block_data_ppg |-> c["PulseBlockPpg"],
         temp |-> c["Temperature"],
         hr |-> c["HeartRate"],
         battery_diagnostics |-> c["BatteryDiagnostics"]]

\* read_data without the missing-header check of lines 63-64: the lookup
\* collections[file_codec.Header] fails with a KeyError.
ReadDataNoHeaderCheck(c) ==
    IF c["Header"] = <<>>
    THEN Raised("KeyError", "Header")
    ELSE Returned(MakeData(c))

\* read_data, from the collections that _read_data_in_memory returned
ReadData(c) ==
    IF c["Header"] = <<>>
    THEN Raised("LookupError", "missing_header")
    ELSE Returned(MakeData(c))

\* --------------------------------------------------------------- reassembly

MaxOf(S) == CHOOSE x \in S : \A y \in S : y <= x

\* A channel count one above max(block.channel + 1).
ChannelCountPlusOne(blocks) ==
    MaxOf({0} \cup {blocks[i].msg.channel + 2 : i \in 1..Len(blocks)})

\* max(block.channel + 1) over the blocks of one kind, from 0
ChannelCount(blocks) ==
    MaxOf({0} \cup {blocks[i].msg.channel + 1 : i \in 1..Len(blocks)})

\* sampleinterval_ms = 1000 / samplerate, in hundredths of a millisecond
\* (exact for the samplerates of the families, which divide 100000)
SampleIntervalX100 == 100000 \div samplerate

\* The sample time rounded to the nearest millisecond, halves up.
SampleStampRounded(lock, counter) == TsPlus(lock, (counter * SampleIntervalX100 + 50) \div 100)

\* int(locked + counter * sampleinterval_ms)
SampleStamp(lock, counter) == TsPlus(lock, (counter * SampleIntervalX100) \div 100)

\* f.read() returns no bytes: the decode loop ends. With a block collection
\* present the reassembly starts (up to its first loop); otherwise the
\* collections go back to read_data.
EndOfStream ==
    /\ IF family = "bytes"
       THEN /\ pc = "read"
            /\ fpos = Len(stream)
            /\ chunk' = IF pos > 0
                        THEN IF pos < Len(chunk) THEN SubSeq(chunk, pos + 1, Len(chunk))
                             ELSE <<>>
                        ELSE chunk
       ELSE /\ pc = "decode"
            /\ UNCHANGED chunk
    /\ event' = [kind |-> "eof"]
    /\ UNCHANGED <<inputVars, nread, decodeVars>>
    /\ UNCHANGED <<stream, fpos, size, pos, total_pos, processed, pass, first>>
    /\ LET ecg_messages == collections["PulseBlockEcg"]
           ppg_messages == collections["PulseBlockPpg"]
       IN  IF ecg_messages # <<>> \/ ppg_messages # <<>>
           THEN IF ecg_messages = <<>>
                THEN /\ result' = Raised("AssertionError", "ecg_messages is None")
                     /\ pc' = "done"
                     /\ UNCHANGED convVars
                ELSE IF ppg_messages = <<>>
                THEN /\ result' = Raised("AssertionError", "ppg_messages is None")
                     /\ pc' = "done"
                     /\ UNCHANGED convVars
                ELSE /\ max_ecg_channels' = ChannelCount(ecg_messages)
                     /\ max_ppg_channels' = ChannelCount(ppg_messages)
                     /\ locked_initial_ecg_timestamp' =
                          [c \in 0..(ChannelCount(ecg_messages) - 1) |-> Zero]
                     /\ ecg_sample_counters' = [c \in 0..(ChannelCount(ecg_messages) - 1) |-> 0]
                     /\ ecg_early_counters' = [c \in 0..(ChannelCount(ecg_messages) - 1) |-> 0]
                     /\ ecg_late_counters' = [c \in 0..(ChannelCount(ecg_messages) - 1) |-> 0]
                     /\ dup_ecg_timestamps' = [c \in 0..(ChannelCount(ecg_messages) - 1) |-> 0]
                     /\ locked_initial_ppg_timestamp' =
                          [c \in 0..(ChannelCount(ppg_messages) - 1) |-> Zero]
                     /\ ppg_sample_counters' = [c \in 0..(ChannelCount(ppg_messages) - 1) |-> 0]
                     /\ ppg_early_counters' = [c \in 0..(ChannelCount(ppg_messages) - 1) |-> 0]
                     /\ ppg_late_counters' = [c \in 0..(ChannelCount(ppg_messages) - 1) |-> 0]
                     /\ dup_ppg_timestamps' = [c \in 0..(ChannelCount(ppg_messages) - 1) |-> 0]
                     /\ merged_data' = <<>>
                     /\ written' = {}
                     /\ blk' = 1
                     /\ pc' = "ecg_check"
                     /\ UNCHANGED result
           ELSE /\ result' = ReadData(collections)
                /\ pc' = "done"
                /\ UNCHANGED convVars

\* stamp_tol = 0.95 and stamp_gap_limit = 5.0, in hundredths of a millisecond
StampTolX100 == 95

StampGapLimitX100 == 500

\* A lock check that takes the time of an early block as the new locked time.
CheckBlockRelockEarly(st, time) ==
    IF st.lock = Zero
    THEN [st EXCEPT !.lock = time]
    ELSE LET stamp_diff == 100 * TsMinus(st.lock, time) + st.counter * SampleIntervalX100
         IN  IF stamp_diff > StampTolX100
             THEN [st EXCEPT !.early = @ + 1, !.lock = time, !.counter = 0]
             ELSE IF stamp_diff < -StampTolX100
             THEN IF stamp_diff < -StampGapLimitX100
                  THEN [st EXCEPT !.late = @ + 1, !.lock = time, !.counter = 0]
                  ELSE [st EXCEPT !.late = @ + 1]
             ELSE st

\* The lock check made on a block before its samples are assigned, on the
\* record st = [lock, counter, early, late] of the block's channel.
CheckBlock(st, time) ==
    IF st.lock = Zero
    THEN [st EXCEPT !.lock = time]
    ELSE LET stamp_diff == 100 * TsMinus(st.lock, time) + st.counter * SampleIntervalX100
         IN  IF stamp_diff > StampTolX100
             THEN [st EXCEPT !.early = @ + 1]
             ELSE IF stamp_diff < -StampTolX100
             THEN IF stamp_diff < -StampGapLimitX100
                  THEN [st EXCEPT !.late = @ + 1, !.lock = time, !.counter = 0]
                  ELSE [st EXCEPT !.late = @ + 1]
             ELSE st

\* PulseRawList(format=0, no_of_ecgs=max_ecg_channels, no_of_ppgs=max_ppg_channels,
\*              ecgs=[0] * max_ecg_channels, ppgs=[0] * max_ppg_channels)
EmptyPulseRawList(n_ecg, n_ppg) ==
    [type |-> "PulseRawList", format |-> 0, no_of_ecgs |-> n_ecg, no_of_ppgs |-> n_ppg,
     ecgs |-> [i \in 1..n_ecg |-> 0], ppgs |-> [i \in 1..n_ppg |-> 0]]

\* A lookup that finds no key: every sample gets an entry of its own.
KeyIndexNever(merged, samplestamp) ==
    IF FALSE
    THEN CHOOSE i \in 1..Len(merged) : merged[i].t = samplestamp
    ELSE 0

\* The position of samplestamp among the keys of the dict, 0 if it is no key.
KeyIndex(merged, samplestamp) ==
    IF \E i \in 1..Len(merged) : merged[i].t = samplestamp
    THEN CHOOSE i \in 1..Len(merged) : merged[i].t = samplestamp
    ELSE 0

\* A PPG write that clears the ECG slots of its entry.
WriteSlotClearingOtherKind(prl, kind, ch, sample) ==
    IF kind = "ecg"
    THEN [prl EXCEPT !.ecgs[ch + 1] = sample]
    ELSE [prl EXCEPT !.ppgs[ch + 1] = -sample, !.ecgs = [i \in 1..Len(@) |-> 0]]

\* One sample written to the slot of channel ch (list index ch + 1): the ECG
\* value as it is, the PPG value negated.
WriteSlot(prl, kind, ch, sample) ==
    IF kind = "ecg"
    THEN [prl EXCEPT !.ecgs[ch + 1] = sample]
    ELSE [prl EXCEPT !.ppgs[ch + 1] = -sample]

\* The loop over the samples of one block, on the record
\* st = [merged, counter, dup, written]; lock is the channel's locked time.
\* "elif merged_data[samplestamp].ecgs[channel] is not None" holds of every
\* entry found, its slots being integers.
RECURSIVE AssignSamples(_, _, _, _, _)
AssignSamples(kind, ch, samples, lock, st) ==
    IF samples = <<>>
    THEN st
    ELSE LET samplestamp == SampleStamp(lock, st.counter)
             i == KeyIndex(st.merged, samplestamp)
             fresh == EmptyPulseRawList(max_ecg_channels, max_ppg_channels)
             merged == IF i = 0
                       THEN Append(st.merged,
                                   [t |-> samplestamp,
                                    msg |-> WriteSlot(fresh, kind, ch, Head(samples))])
                       ELSE [st.merged EXCEPT
                                ![i].msg = WriteSlot(@, kind, ch, Head(samples))]
         IN  AssignSamples(kind, ch, Tail(samples), lock,
                           [merged |-> merged,
                            counter |-> st.counter + 1,
                            dup |-> IF i = 0 THEN st.dup ELSE st.dup + 1,
                            written |-> st.written \cup {<<kind, ch, samplestamp>>}])

\* for _, ecg_block in ecg_messages: the lock check of the block at blk
EcgCheck ==
    /\ pc = "ecg_check"
    /\ LET block == collections["PulseBlockEcg"][blk].msg
           ch == block.channel
           st == CheckBlock([lock |-> locked_initial_ecg_timestamp[ch],
                             counter |-> ecg_sample_counters[ch],
                             early |-> ecg_early_counters[ch],
                             late |-> ecg_late_counters[ch]], block.time)
       IN  /\ locked_initial_ecg_timestamp' =
                [locked_initial_ecg_timestamp EXCEPT ![ch] = st.lock]
           /\ ecg_sample_counters' = [ecg_sample_counters EXCEPT ![ch] = st.counter]
           /\ ecg_early_counters' = [ecg_early_counters EXCEPT ![ch] = st.early]
           /\ ecg_late_counters' = [ecg_late_counters EXCEPT ![ch] = st.late]
    /\ pc' = "ecg_assign"
    /\ UNCHANGED <<inputVars, cursorVars, nread, event, decodeVars, result, max_ecg_channels,
                   max_ppg_channels, dup_ecg_timestamps, ppgVars, merged_data, blk,
                   written>>

\* for ecg_sample in ecg_block.samples: the samples of the block at blk
EcgAssign ==
    /\ pc = "ecg_assign"
    /\ LET block == collections["PulseBlockEcg"][blk].msg
           ch == block.channel
           st == AssignSamples("ecg", ch, block.samples,
                               locked_initial_ecg_timestamp[ch],
                               [merged |-> merged_data,
                                counter |-> ecg_sample_counters[ch],
                                dup |-> dup_ecg_timestamps[ch],
                                written |-> written])
       IN  /\ merged_data' = st.merged
           /\ ecg_sample_counters' = [ecg_sample_counters EXCEPT ![ch] = st.counter]
           /\ dup_ecg_timestamps' = [dup_ecg_timestamps EXCEPT ![ch] = st.dup]
           /\ written' = st.written
    /\ IF blk < Len(collections["PulseBlockEcg"])
       THEN blk' = blk + 1 /\ pc' = "ecg_check"
       ELSE blk' = 1 /\ pc' = "ppg_check"
    /\ UNCHANGED <<inputVars, cursorVars, nread, event, decodeVars, result, max_ecg_channels,
                   max_ppg_channels, locked_initial_ecg_timestamp, ecg_early_counters,
                   ecg_late_counters, ppgVars>>

\* for _, ppg_block in ppg_messages: the lock check of the block at blk
PpgCheck ==
    /\ pc = "ppg_check"
    /\ LET block == collections["PulseBlockPpg"][blk].msg
           ch == block.channel
           st == CheckBlock([lock |-> locked_initial_ppg_timestamp[ch],
                             counter |-> ppg_sample_counters[ch],
                             early |-> ppg_early_counters[ch],
                             late |-> ppg_late_counters[ch]], block.time)
       IN  /\ locked_initial_ppg_timestamp' =
                [locked_initial_ppg_timestamp EXCEPT ![ch] = st.lock]
           /\ ppg_sample_counters' = [ppg_sample_counters EXCEPT ![ch] = st.counter]
           /\ ppg_early_counters' = [ppg_early_counters EXCEPT ![ch] = st.early]
           /\ ppg_late_counters' = [ppg_late_counters EXCEPT ![ch] = st.late]
    /\ pc' = "ppg_assign"
    /\ UNCHANGED <<inputVars, cursorVars, nread, event, decodeVars, result, max_ecg_channels,
                   max_ppg_channels, dup_ppg_timestamps, ecgVars, merged_data, blk,
                   written>>

\* for ppg_sample in ppg_block.samples: the samples of the block at blk
PpgAssign ==
    /\ pc = "ppg_assign"
    /\ LET block == collections["PulseBlockPpg"][blk].msg
           ch == block.channel
           st == AssignSamples("ppg", ch, block.samples,
                               locked_initial_ppg_timestamp[ch],
                               [merged |-> merged_data,
                                counter |-> ppg_sample_counters[ch],
                                dup |-> dup_ppg_timestamps[ch],
                                written |-> written])
       IN  /\ merged_data' = st.merged
           /\ ppg_sample_counters' = [ppg_sample_counters EXCEPT ![ch] = st.counter]
           /\ dup_ppg_timestamps' = [dup_ppg_timestamps EXCEPT ![ch] = st.dup]
           /\ written' = st.written
    /\ IF blk < Len(collections["PulseBlockPpg"])
       THEN blk' = blk + 1 /\ pc' = "ppg_check"
       ELSE blk' = 0 /\ pc' = "convert_finish"
    /\ UNCHANGED <<inputVars, cursorVars, nread, event, decodeVars, result, max_ecg_channels,
                   max_ppg_channels, locked_initial_ppg_timestamp, ppg_early_counters,
                   ppg_late_counters, ecgVars>>

\* collections[PulseRawList] = list(merged_data.items())
MergedItems(merged) == [i \in 1..Len(merged) |-> Entry(merged[i].t, merged[i].msg, 0, merged[i].msg)]

\* A reassembly that adds its entries to the natively decoded ones.
ReassembledKeepingNative(c, merged) ==
    [c EXCEPT !["PulseRawList"] = @ \o MergedItems(merged),
              !["PulseBlockPpg"] = <<>>,
              !["PulseBlockEcg"] = <<>>]

\* The collections as the reassembly leaves them.
Reassembled(c, merged) ==
    [c EXCEPT !["PulseRawList"] = MergedItems(merged),
              !["PulseBlockPpg"] = <<>>,
              !["PulseBlockEcg"] = <<>>]

\* The reassembly stores its result and returns; _read_data_in_memory returns
\* the collections and read_data builds the Data.
ConvertFinish ==
    /\ pc = "convert_finish"
    /\ collections' = Reassembled(collections, merged_data)
    /\ result' = ReadData(collections')
    /\ pc' = "done"
    /\ UNCHANGED <<inputVars, cursorVars, nread, event, current_off_dac, timeVars,
                   countVars, version, header_found, convVars>>

Next ==
    \/ ReadUnknown
    \/ ReadHeader
    \/ ReadBeforeHeader
    \/ ReadTimestamp
    \/ ReadBlock
    \/ ReadTicked
    \/ EndOfStream
    \/ EcgCheck
    \/ EcgAssign
    \/ PpgCheck
    \/ PpgAssign
    \/ ConvertFinish

Spec == Init /\ [][Next]_vars

\* ------------------------------------------------------- the chunked reader
\* For the family "bytes" the file is a sequence of bytes and the decode pass
\* runs its two loops: the outer one refills chunk from f.read, the inner one
\* decodes at chunk[pos:]. pc is "read" at the head of the outer loop and
\* "decode" at the head of the inner one.

\* buffer_size = 16384
buffer_size == 16384

\* The files: every byte sequence of at most MaxBytes bytes.
Streams == UNION {[1..n -> Bytes] : n \in 0..MaxBytes}

Min(a, b) == IF a < b THEN a ELSE b

\* The buffer kept whole, the consumed bytes with it.
UnconsumedWhole == chunk

\* The buffer emptied, the unconsumed tail with it.
UnconsumedNone == <<>>

\* if pos > 0: chunk = chunk[pos:] if pos < len(chunk) else bytearray()
Unconsumed ==
    IF pos > 0
    THEN IF pos < Len(chunk) THEN SubSeq(chunk, pos + 1, Len(chunk)) ELSE <<>>
    ELSE chunk

\* Two calls of read_data are made on the same bytes. The reader of the first
\* call returns everything f.read asks for, so a file of at most buffer_size
\* bytes arrives as a single buffer; the reader of the second call may return
\* any non-empty part of it (a short read).
ReadSizes ==
    LET most == Min(buffer_size, Len(stream) - fpos)
    IN  IF pass = 1 THEN {most} ELSE 1..most

\* One pass of "while True" in which f.read returns bytes: the unconsumed tail
\* is kept, the new bytes are appended, total_pos takes up pos, pos restarts.
Refill ==
    /\ family = "bytes"
    /\ pc = "read"
    /\ fpos < Len(stream)
    /\ \E n \in ReadSizes :
          LET new_chunk == SubSeq(stream, fpos + 1, fpos + n)
          IN  /\ fpos' = fpos + n
              /\ chunk' = Unconsumed \o new_chunk
              /\ size' = Len(Unconsumed \o new_chunk)
    /\ total_pos' = total_pos + pos
    /\ pos' = 0
    /\ pc' = "decode"
    /\ UNCHANGED <<inputVars, nread, event, decodeVars, result, convVars, stream,
                   processed, pass, first>>

\* A truncated message counted as an unknown one.
NeedMoreBytesCounted ==
    /\ family = "bytes"
    /\ pc = "decode"
    /\ pos < size
    /\ DecodeMessage(SubSeq(chunk, pos + 1, Len(chunk)), version) = InsufficientBytes
    /\ pc' = "read"
    /\ unknown_msgs' = unknown_msgs + 1
    /\ UNCHANGED <<inputVars, nread, event, current_off_dac, timeVars, too_old_msgs,
                   total_messages, logged, collections, version, header_found, result,
                   convVars, cursorVars>>

\* except BufferError: break
NeedMoreBytes ==
    /\ family = "bytes"
    /\ pc = "decode"
    /\ pos < size
    /\ DecodeMessage(SubSeq(chunk, pos + 1, Len(chunk)), version) = InsufficientBytes
    /\ pc' = "read"
    /\ UNCHANGED <<inputVars, nread, event, decodeVars, result, convVars, cursorVars>>

\* "while pos < size" ends
ChunkDone ==
    /\ family = "bytes"
    /\ pc = "decode"
    /\ pos >= size
    /\ pc' = "read"
    /\ UNCHANGED <<inputVars, nread, event, decodeVars, result, convVars, cursorVars>>

\* The first call is over; read_data is called again on the same bytes.
SecondCall ==
    /\ family = "bytes"
    /\ pc = "done"
    /\ pass = 1
    /\ first' = [processed |-> processed, collections |-> collections,
                 result |-> result, unknown_msgs |-> unknown_msgs]
    /\ pass' = 2
    /\ fpos' = 0
    /\ nread' = 0
    /\ event' = NoEvent
    /\ current_off_dac' = 0
    /\ start_timestamp' = Zero
    /\ last_full_timestamp' = Zero
    /\ current_timestamp' = Zero
    /\ prev_timestamp' = Zero
    /\ unknown_msgs' = 0
    /\ too_old_msgs' = 0
    /\ total_messages' = 0
    /\ logged' = {}
    /\ lsb_wrap_counter' = 0
    /\ collections' = [ty \in Types |-> <<>>]
    /\ version' = <<>>
    /\ header_found' = FALSE
    /\ result' = NoResult
    /\ max_ecg_channels' = 0
    /\ max_ppg_channels' = 0
    /\ locked_initial_ecg_timestamp' = <<>>
    /\ ecg_sample_counters' = <<>>
    /\ ecg_early_counters' = <<>>
    /\ ecg_late_counters' = <<>>
    /\ dup_ecg_timestamps' = <<>>
    /\ locked_initial_ppg_timestamp' = <<>>
    /\ ppg_sample_counters' = <<>>
    /\ ppg_early_counters' = <<>>
    /\ ppg_late_counters' = <<>>
    /\ dup_ppg_timestamps' = <<>>
    /\ merged_data' = <<>>
    /\ blk' = 0
    /\ written' = {}
    /\ chunk' = <<>>
    /\ size' = 0
    /\ pos' = 0
    /\ total_pos' = 0
    /\ processed' = <<>>
    /\ pc' = "read"
    /\ UNCHANGED <<inputVars, stream>>

CursorInit ==
    /\ family = "bytes"
    /\ fail_on_errors \in BOOLEAN
    /\ samplerate = Samplerate(family)
    /\ InitLocals
    /\ pc = "read"
    /\ stream \in Streams
    /\ fpos = 0
    /\ pass = 1
    /\ first = NoResult

CursorNext ==
    \/ Refill
    \/ NeedMoreBytes
    \/ ChunkDone
    \/ ReadUnknown
    \/ ReadHeader
    \/ ReadBeforeHeader
    \/ ReadTimestamp
    \/ ReadTicked
    \/ EndOfStream
    \/ SecondCall

CursorSpec == CursorInit /\ [][CursorNext]_vars

\* The same, with the loop taking its next step whenever it has one.
CursorFairSpec == CursorSpec /\ WF_vars(CursorNext)

\* ------------------------------------------------------------------- claims

\* The entries of every collection, as a set.
StoredEntries ==
    UNION {{collections[ty][i] : i \in 1..Len(collections[ty])} : ty \in Types}

\* C1, as stated: a stream without a Header always ends in the missing-header
\* LookupError of read_data, in strict and in non-strict mode.
C1_MissingHeaderAlways ==
    (pc = "done" /\ ~header_found) => result = Raised("LookupError", "missing_header")

\* C1, amended: a stream without a Header always ends in a LookupError; it is
\* the missing-header error of read_data, except that strict mode fails at the
\* first unknown tag with the unknown-message-type LookupError.
C1_NoHeaderLookupError ==
    (pc = "done" /\ ~header_found) =>
        /\ result.kind = "raised"
        /\ result.exc = "LookupError"
        /\ result.why = IF fail_on_errors /\ event.kind = "unknown"
                        THEN "unknown_message_type"
                        ELSE "missing_header"

\* C1 witness: a non-strict pass over three or more items, an unknown byte
\* among them and no Header, has ended in the missing-header error.
C1_Witness ==
    /\ pc = "done"
    /\ ~header_found
    /\ ~fail_on_errors
    /\ nread >= 3
    /\ unknown_msgs >= 1
    /\ result = Raised("LookupError", "missing_header")

\* C2: no collection holds a message that arrived before the first Header:
\* nothing is stored while no Header has been seen, and every decoded message
\* that is stored arrived at or after the first stored Header.
C2_SkipBeforeHeader ==
    /\ ~header_found => StoredEntries = {}
    /\ \A e \in StoredEntries :
          e.at > 0 => /\ collections["Header"] # <<>>
                      /\ e.at >= collections["Header"][1].at

\* C2 witness: two messages were skipped before the Header, which arrived
\* third, and a message after it was stored.
C2_Witness ==
    /\ collections["Header"] # <<>>
    /\ collections["Header"][1].at = 3
    /\ \E e \in StoredEntries : e.at = 4


\* The reference wrap algorithm of C3 on a timestamp cur and a tick t: the
\* change of the bits above bit 15.
C3_RefCarry(cur, t) ==
    LET low16 == cur.lo
    IN  IF low16 > 65000 /\ t < 100 THEN 1
        ELSE IF t > 65000 /\ low16 < 100 THEN -1
        ELSE 0

\* C3: every ticked message processed after a Header (and not refused as too
\* old in strict mode) leaves current_timestamp at the result of the reference
\* wrap algorithm on the previous current_timestamp and the message's tick,
\* moves the wrap counter by the same carry, and, when the message is stored,
\* is stored under that timestamp, whose low 16 bits are its tick.
C3_TickReconstruction ==
    [][(nread' = nread + 1 /\ event'.kind = "ticked"
            /\ ~(event'.too_old /\ fail_on_errors)) =>
          LET t == event'.msg.two_lsb_of_timestamp
              carry == C3_RefCarry(current_timestamp, t)
              ref == [hi |-> current_timestamp.hi + carry, lo |-> t]
              stored == collections'[event'.msg.type]
          IN  /\ current_timestamp' = ref
              /\ lsb_wrap_counter' = lsb_wrap_counter + carry
              /\ result' = NoResult =>
                    /\ Len(stored) = Len(collections[event'.msg.type]) + 1
                    /\ stored[Len(stored)].t = ref
                    /\ stored[Len(stored)].t.lo = t
                    /\ stored[Len(stored)].wire = event'.msg]_vars

\* C3 witness: after a Header at T0 three ticked messages were stored, the
\* second across a forward wrap and the third back across a backward wrap.
C3_Witness ==
    /\ Len(collections["Temperature"]) = 3
    /\ collections["Temperature"][1].t.hi = T0.hi
    /\ collections["Temperature"][2].t.hi = T0.hi + 1
    /\ collections["Temperature"][3].t.hi = T0.hi
    /\ lsb_wrap_counter = 0


\* The index in the sequence q of its last entry that arrived before position
\* at, 0 if there is none.
C4_LastBefore(q, at) ==
    IF \E i \in 1..Len(q) : q[i].at < at
    THEN CHOOSE i \in 1..Len(q) :
            /\ q[i].at < at
            /\ \A j \in 1..Len(q) : q[j].at < at => j <= i
    ELSE 0

\* int(-off_dac * relative_gain) of the most recent AfeSettings message stored
\* before the entry e, 0 if there is none.
C4_OffDac(e) ==
    LET i == C4_LastBefore(collections["AfeSettings"], e.at)
        a == collections["AfeSettings"][i].wire
        p == (-a.off_dac) * a.gain_num
    IN  IF i = 0 THEN 0
        ELSE IF p >= 0 THEN p \div a.gain_den ELSE -((-p) \div a.gain_den)

\* The version context when e was decoded: the firmware version of the most
\* recent Header before it.
C4_Firmware(e) ==
    collections["Header"][C4_LastBefore(collections["Header"], e.at)].wire.firmware_version

\* The PPG value that C4 expects stored for the decoded value v of the entry e.
C4_Expected(e, v) ==
    LET fw == C4_Firmware(e)
    IN  IF fw[1] > 4 \/ (fw[1] = 4 /\ (fw[2] > 0 \/ fw[3] >= 1))
        THEN -(v + C4_OffDac(e))
        ELSE v

\* C4: every stored PpgRaw and PpgRawAll message holds, for each of its PPG
\* values, the decoded value when the firmware version is below (4,0,1), and
\* -(decoded + off_dac) otherwise, off_dac being int(-off_dac * relative_gain)
\* of the most recent AfeSettings message processed before it (0 if none).
C4_PpgCorrection ==
    /\ \A i \in 1..Len(collections["PpgRaw"]) :
          LET e == collections["PpgRaw"][i]
          IN  e.msg.ppg = C4_Expected(e, e.wire.ppg)
    /\ \A i \in 1..Len(collections["PpgRawAll"]) :
          LET e == collections["PpgRawAll"][i]
          IN  /\ e.msg.ppg = C4_Expected(e, e.wire.ppg)
              /\ e.msg.ppg_red = C4_Expected(e, e.wire.ppg_red)
              /\ e.msg.ppg_ir = C4_Expected(e, e.wire.ppg_ir)

\* C4 witness: the example of the claim. AfeSettings(off_dac=10,
\* relative_gain=2.0) was stored, and a PpgRaw decoded after it with ppg = 5
\* is stored with ppg = 15.
C4_Witness ==
    \E i \in 1..Len(collections["PpgRaw"]) :
        LET e == collections["PpgRaw"][i]
            k == C4_LastBefore(collections["AfeSettings"], e.at)
        IN  /\ k > 0
            /\ collections["AfeSettings"][k].wire.off_dac = 10
            /\ collections["AfeSettings"][k].wire.gain_num = 2
            /\ collections["AfeSettings"][k].wire.gain_den = 1
            /\ e.wire.ppg = 5
            /\ e.msg.ppg = 15


\* The last step detected one of the conditions that strict mode escalates:
\* an unknown tag, a Header or sync time above the ceiling, a sync time below
\* the last full timestamp, a timestamp below the minimum epoch, a jump.
C5_Anomaly ==
    \/ event.kind = "unknown"
    \/ event.kind = "header" /\ TsLess(MAX_TIMESTAMP, event.msg.current_time)
    \/ event.kind = "sync" /\ TsLess(MAX_TIMESTAMP, event.msg.current_time)
    \/ event.kind = "sync" /\ TsLess(event.msg.current_time, last_full_timestamp)
    \/ event.kind = "ticked" /\ (event.too_old \/ event.jump)

\* C5, as stated, for streams that hold a Header: in strict mode the message at
\* which an anomaly is detected ends the pass with a LookupError and no
\* result; in non-strict mode a stream in which anomalies were logged yields a
\* complete result.
C5_StrictEscalation ==
    /\ (fail_on_errors /\ C5_Anomaly) =>
          (pc = "done" /\ result.kind = "raised" /\ result.exc = "LookupError")
    /\ (~fail_on_errors /\ pc = "done" /\ header_found /\ logged # {}) =>
          result.kind = "returned"

\* C5 without the non-strict streams whose reassembly fails (C6): apart from
\* that failure the claim holds.
C5_ExceptReassemblyFailure ==
    /\ (fail_on_errors /\ C5_Anomaly) =>
          (pc = "done" /\ result.kind = "raised" /\ result.exc = "LookupError")
    /\ (~fail_on_errors /\ pc = "done" /\ header_found /\ logged # {}) =>
          (result.kind = "returned" \/ result.exc = "AssertionError")

\* C6, as stated: in non-strict mode every stream that holds a Header ends
\* with read_data returning a result.
C6_NonStrictAlwaysReturns ==
    (~fail_on_errors /\ pc = "done" /\ header_found) => result.kind = "returned"

\* C6, where it does hold: in non-strict mode a stream with a Header raises
\* only the AssertionError of a reassembly that found blocks of one kind only.
C6_OnlyReassemblyRaises ==
    (~fail_on_errors /\ pc = "done" /\ header_found /\ result.kind = "raised") =>
        /\ result.exc = "AssertionError"
        /\ written = {}

\* C7: when read_data returns after a pass that stored block messages, the
\* multi-channel pulse sequence of the result is exactly the reassembled
\* entries, in their order and with no natively decoded entry left, and both
\* block sequences of the result are empty.
C7_ReassemblyReplaces ==
    [][(pc' = "done" /\ result'.kind = "returned"
            /\ (collections["PulseBlockEcg"] # <<>> \/ collections["PulseBlockPpg"] # <<>>)) =>
          LET multi == result'.data.multi_ecg_ppg_data
          IN  /\ result'.data.block_data_ecg = <<>>
              /\ result'.data.block_data_ppg = <<>>
              /\ Len(multi) = Len(merged_data)
              /\ \A i \in 1..Len(multi) :
                    /\ multi[i].t = merged_data[i].t
                    /\ multi[i].msg = merged_data[i].msg]_vars

\* C7 witness: read_data has returned for a stream in which a natively decoded
\* PulseRawList was stored as well as blocks of both kinds.
C7_Witness ==
    /\ pc = "done"
    /\ result.kind = "returned"
    /\ family = "channels"
    /\ prev_timestamp # Zero
    /\ written # {}
    /\ Len(result.data.multi_ecg_ppg_data) = Len(merged_data)


\* The highest channel index among the blocks of one kind.
C8_HighestChannel(blocks) == MaxOf({blocks[i].msg.channel : i \in 1..Len(blocks)})

\* C8: with k the highest ECG channel index and j the highest PPG channel
\* index among the stored blocks, every reassembled entry of the result has
\* exactly k+1 ECG slots and j+1 PPG slots, and a slot that no sample was
\* written to holds 0.
C8_ChannelPadding ==
    [][(pc = "convert_finish" /\ pc' = "done") =>
          LET k == C8_HighestChannel(collections["PulseBlockEcg"])
              j == C8_HighestChannel(collections["PulseBlockPpg"])
              multi == result'.data.multi_ecg_ppg_data
          IN  /\ result'.kind = "returned"
              /\ \A i \in 1..Len(multi) :
                    /\ Len(multi[i].msg.ecgs) = k + 1
                    /\ Len(multi[i].msg.ppgs) = j + 1
                    /\ multi[i].msg.no_of_ecgs = k + 1
                    /\ multi[i].msg.no_of_ppgs = j + 1
                    /\ \A c \in 0..k : <<"ecg", c, multi[i].t>> \notin written =>
                                          multi[i].msg.ecgs[c + 1] = 0
                    /\ \A c \in 0..j : <<"ppg", c, multi[i].t>> \notin written =>
                                          multi[i].msg.ppgs[c + 1] = 0]_vars

\* C8 witness: a returned result holds an entry with two ECG slots of which
\* one was written and the other was not.
C8_Witness ==
    /\ pc = "done"
    /\ result.kind = "returned"
    /\ \E i \in 1..Len(result.data.multi_ecg_ppg_data) :
          LET e == result.data.multi_ecg_ppg_data[i]
          IN  /\ Len(e.msg.ecgs) = 2
              /\ <<"ecg", 1, e.t>> \in written
              /\ <<"ecg", 0, e.t>> \notin written
              /\ e.msg.ecgs[1] = 0

\* The re-lock rule on one lock check: a block more than 5 ms later than the
\* expected time (locked time + sample counter * sample interval) sets the
\* locked time to its own time and the sample counter to 0; any other block
\* leaves both as they are.
C9_Rule(lock, counter, time, lock2, counter2) ==
    LET expected == SampleStamp(lock, counter)
    IN  IF TsMinus(time, expected) > 5
        THEN lock2 = time /\ counter2 = 0
        ELSE lock2 = lock /\ counter2 = counter

\* The block at blk is not the first of its channel in the sequence.
C9_AfterFirst(blocks) ==
    \E i \in 1..(blk - 1) : blocks[i].msg.channel = blocks[blk].msg.channel

\* C9, as stated: the lock check of every block after the first on its
\* channel, ECG and PPG alike, follows the re-lock rule.
C9_DriftRelock ==
    [][/\ (pc = "ecg_check" /\ pc' = "ecg_assign"
              /\ C9_AfterFirst(collections["PulseBlockEcg"])) =>
            LET block == collections["PulseBlockEcg"][blk].msg
            IN  C9_Rule(locked_initial_ecg_timestamp[block.channel],
                        ecg_sample_counters[block.channel], block.time,
                        locked_initial_ecg_timestamp'[block.channel],
                        ecg_sample_counters'[block.channel])
       /\ (pc = "ppg_check" /\ pc' = "ppg_assign"
              /\ C9_AfterFirst(collections["PulseBlockPpg"])) =>
            LET block == collections["PulseBlockPpg"][blk].msg
            IN  C9_Rule(locked_initial_ppg_timestamp[block.channel],
                        ppg_sample_counters[block.channel], block.time,
                        locked_initial_ppg_timestamp'[block.channel],
                        ppg_sample_counters'[block.channel])]_vars

\* C9, where it does hold: the lock check of a block whose channel has a
\* locked time other than 0 follows the re-lock rule.
C9_RelockWhenLocked ==
    [][/\ (pc = "ecg_check" /\ pc' = "ecg_assign"
              /\ C9_AfterFirst(collections["PulseBlockEcg"])
              /\ locked_initial_ecg_timestamp[collections["PulseBlockEcg"][blk].msg.channel] # Zero) =>
            LET block == collections["PulseBlockEcg"][blk].msg
            IN  C9_Rule(locked_initial_ecg_timestamp[block.channel],
                        ecg_sample_counters[block.channel], block.time,
                        locked_initial_ecg_timestamp'[block.channel],
                        ecg_sample_counters'[block.channel])
       /\ (pc = "ppg_check" /\ pc' = "ppg_assign"
              /\ C9_AfterFirst(collections["PulseBlockPpg"])
              /\ locked_initial_ppg_timestamp[collections["PulseBlockPpg"][blk].msg.channel] # Zero) =>
            LET block == collections["PulseBlockPpg"][blk].msg
            IN  C9_Rule(locked_initial_ppg_timestamp[block.channel],
                        ppg_sample_counters[block.channel], block.time,
                        locked_initial_ppg_timestamp'[block.channel],
                        ppg_sample_counters'[block.channel])]_vars

\* The stream of C10 was decoded: Header(5.0.0, T) first, then three
\* PpgRawAll messages with ticks 100, 101, 102, and nothing else.
C10_Stream ==
    /\ pc = "done"
    /\ nread = 4
    /\ Len(collections["Header"]) = 1
    /\ collections["Header"][1].at = 1
    /\ collections["Header"][1].wire = Header(FW500, T0)
    /\ Len(collections["PpgRawAll"]) = 3
    /\ \A i \in 1..3 :
          /\ collections["PpgRawAll"][i].at = i + 1
          /\ collections["PpgRawAll"][i].wire.two_lsb_of_timestamp = 99 + i

\* C10: for that stream read_data returns three sensor records, in order,
\* whose timestamps are T with its low 16 bits replaced by 100, 101, 102 and
\* whose ecg is the decoded ecg and whose ppg is the negated decoded ppg.
C10_EndToEnd ==
    C10_Stream =>
        /\ result.kind = "returned"
        /\ Len(result.data.sensor) = 3
        /\ \A i \in 1..3 :
              LET wire == collections["PpgRawAll"][i].wire
                  rec == result.data.sensor[i]
              IN  /\ rec.t = TS(T0.hi, 99 + i)
                  /\ rec.msg.type = "PpgRaw"
                  /\ rec.msg.ecg = wire.ecg
                  /\ rec.msg.ppg = -wire.ppg

\* C10 witness: the stream was decoded and read_data has returned records
\* with ppg -5, -15, -25.
C10_Witness ==
    /\ C10_Stream
    /\ result.kind = "returned"
    /\ [i \in 1..3 |-> result.data.sensor[i].msg.ppg] = <<-5, -15, -25>>


\* The three encodings of the AFE settings.
C11_AfeTypes == {"AfeSettings", "AfeSettingsOld", "AfeSettingsAll"}

\* C11, as stated: whenever an AFE-settings message of any of the three
\* encodings is processed, current_off_dac becomes int(-off_dac * relative_gain)
\* of that message.
C11_OffDacAnyEncoding ==
    [][(event'.kind = "ticked" /\ nread' = nread + 1
            /\ event'.msg.type \in C11_AfeTypes
            /\ ~(event'.too_old /\ fail_on_errors)) =>
          current_off_dac' =
              TruncDiv((-event'.msg.off_dac) * event'.msg.gain_num, event'.msg.gain_den)]_vars

\* C11, where it does hold: an AfeSettings message sets current_off_dac, a
\* message of the two legacy encodings leaves it as it is.
C11_OffDacCurrentEncodingOnly ==
    [][(event'.kind = "ticked" /\ nread' = nread + 1
            /\ event'.msg.type \in C11_AfeTypes
            /\ ~(event'.too_old /\ fail_on_errors)) =>
          current_off_dac' =
              IF event'.msg.type = "AfeSettings"
              THEN TruncDiv((-event'.msg.off_dac) * event'.msg.gain_num,
                            event'.msg.gain_den)
              ELSE current_off_dac]_vars


\* C12, as stated: a Header decoded after the first one leaves the version
\* context unchanged, and the version context is always the firmware version
\* of the first stored Header, the one the result's device info reports.
C12_FirstHeaderOnly ==
    /\ [][(header_found /\ event'.kind = "header" /\ nread' = nread + 1) =>
             version' = version]_vars
    /\ [](collections["Header"] # <<>> =>
             version = collections["Header"][1].msg.firmware_version)

\* C12, where it does hold: every Header sets the version context to its own
\* firmware version, and no other step changes it.
C12_LastHeaderWins ==
    [][IF event'.kind = "header" /\ nread' = nread + 1
       THEN version' = event'.msg.firmware_version
       ELSE version' = version]_vars


\* C13: the AFE-settings sequence of a returned result is the stored
\* AfeSettings sequence if that is non-empty, otherwise the stored
\* AfeSettingsOld sequence if that is non-empty, otherwise the stored
\* AfeSettingsAll sequence, and nothing else.
C13_AfePriority ==
    result.kind = "returned" =>
        result.data.afe =
            IF Len(collections["AfeSettings"]) > 0 THEN collections["AfeSettings"]
            ELSE IF Len(collections["AfeSettingsOld"]) > 0 THEN collections["AfeSettingsOld"]
            ELSE collections["AfeSettingsAll"]

\* C13 witness: a result was returned for a stream with no AfeSettings and
\* with both legacy encodings stored, and it holds the AfeSettingsOld ones.
C13_Witness ==
    /\ result.kind = "returned"
    /\ collections["AfeSettings"] = <<>>
    /\ collections["AfeSettingsOld"] # <<>>
    /\ collections["AfeSettingsAll"] # <<>>
    /\ result.data.afe = collections["AfeSettingsOld"]

\* C14: with an ImuRaw message stored, the accelerometer and the gyroscope
\* sequence of a returned result have one record per ImuRaw entry, in order,
\* with its timestamp and its acc / gyr values, and hold nothing else; with
\* none stored they are the stored AccRaw and GyroRaw sequences.
C14_ImuOverrides ==
    result.kind = "returned" =>
        LET imu == collections["ImuRaw"]
            acc == result.data.acc
            gyro == result.data.gyro
        IN  IF imu # <<>>
            THEN /\ Len(acc) = Len(imu)
                 /\ Len(gyro) = Len(imu)
                 /\ \A i \in 1..Len(imu) :
                       /\ acc[i].t = imu[i].t
                       /\ gyro[i].t = imu[i].t
                       /\ acc[i].msg.type = "AccRaw"
                       /\ gyro[i].msg.type = "GyroRaw"
                       /\ <<acc[i].msg.acc_x, acc[i].msg.acc_y, acc[i].msg.acc_z>> =
                              <<imu[i].msg.acc_x, imu[i].msg.acc_y, imu[i].msg.acc_z>>
                       /\ <<gyro[i].msg.gyr_x, gyro[i].msg.gyr_y, gyro[i].msg.gyr_z>> =
                              <<imu[i].msg.gyr_x, imu[i].msg.gyr_y, imu[i].msg.gyr_z>>
            ELSE /\ acc = collections["AccRaw"]
                 /\ gyro = collections["GyroRaw"]

\* C14 witness: a result was returned for a stream with an ImuRaw, an AccRaw
\* and a GyroRaw message stored.
C14_Witness ==
    /\ result.kind = "returned"
    /\ collections["ImuRaw"] # <<>>
    /\ collections["AccRaw"] # <<>>
    /\ collections["GyroRaw"] # <<>>
    /\ Len(result.data.acc) = Len(collections["ImuRaw"])


\* The absolute offset of the cursor, and the wire length (tag byte and body)
\* of the message that starts there in the file.
C15_Offset == total_pos + pos

C15_WireLength == 1 + MessageLength([type |-> TypeOfTag(stream[C15_Offset + 1])], version)

\* C15: a step of the decode loop moves the read position by the wire length
\* of the message for a decoded message (stored, skipped before the Header, or
\* with its timestamp rejected), by 1 byte for an unknown tag in non-strict
\* mode, and by nothing when the codec reports insufficient bytes.
C15_PositionAdvance ==
    [][/\ (nread' = nread + 1 /\ pc' = "decode"
              /\ event'.kind \in {"header", "skipped", "sync", "ticked"}) =>
            (pos' = pos + C15_WireLength /\ total_pos' = total_pos)
       /\ (nread' = nread + 1 /\ event'.kind = "unknown" /\ ~fail_on_errors) =>
            (pos' = pos + 1 /\ total_pos' = total_pos)
       /\ (pc = "decode" /\ pc' = "read" /\ pos < size) =>
            (pos' = pos /\ total_pos' = total_pos)]_vars

\* C15 witness: in non-strict mode a Timestamp below the last full timestamp
\* was decoded and rejected, and the loop goes on behind it.
C15_Witness ==
    /\ family = "bytes"
    /\ pc = "decode"
    /\ ~fail_on_errors
    /\ event.kind = "sync"
    /\ TsLess(event.msg.current_time, last_full_timestamp)
    /\ pos >= 2

\* C16: an unknown tag in non-strict mode adds one to the unknown-message
\* counter and one to the position, and leaves the collections, the
\* timestamps, the wrap counter, current_off_dac, the version context and the
\* header_found flag as they are.
C16_UnknownFrame ==
    [][(nread' = nread + 1 /\ event'.kind = "unknown" /\ ~fail_on_errors) =>
          /\ unknown_msgs' = unknown_msgs + 1
          /\ pos' = pos + 1
          /\ UNCHANGED <<collections, current_timestamp, last_full_timestamp,
                         lsb_wrap_counter, prev_timestamp, current_off_dac, version,
                         header_found, start_timestamp, too_old_msgs, total_messages,
                         chunk, total_pos>>]_vars

\* C16 witness: an unknown byte was passed in non-strict mode after a Header
\* and a ticked message had set the timestamps.
C16_Witness ==
    /\ family = "bytes"
    /\ ~fail_on_errors
    /\ event.kind = "unknown"
    /\ header_found
    /\ prev_timestamp # Zero
    /\ unknown_msgs >= 1

\* C17: in the decode loop the unconsumed part of the buffer is the part of
\* the file from the absolute offset total_pos + pos to the last byte read, so
\* that offset is the number of bytes read less the bytes left in the buffer.
C17_BufferIsFileWindow ==
    (family = "bytes" /\ pc \in {"decode", "read"}) =>
        /\ SubSeq(chunk, pos + 1, Len(chunk)) = SubSeq(stream, total_pos + pos + 1, fpos)
        /\ total_pos + pos = fpos - (Len(chunk) - pos)
        /\ pos <= Len(chunk)

\* C17 witness: after an earlier refill the inner loop has stopped at a
\* truncated message, with bytes consumed before it and a tail to carry over.
C17_Witness ==
    /\ family = "bytes"
    /\ pc = "read"
    /\ total_pos > 0
    /\ pos > 0
    /\ pos < Len(chunk)
    /\ fpos < Len(stream)

\* C18: the second call, whose reads may be short in any pattern, processes
\* the same items at the same offsets, leaves the same collections and gives
\* the same result as the first call, which decoded the file from one buffer.
C18_ChunkingIndependent ==
    (family = "bytes" /\ pass = 2 /\ pc = "done") =>
        /\ processed = first.processed
        /\ collections = first.collections
        /\ result = first.result
        /\ unknown_msgs = first.unknown_msgs

\* C18 witness: the second call has returned after more than one read, with
\* several items processed.
C18_Witness ==
    /\ family = "bytes"
    /\ pass = 2
    /\ pc = "done"
    /\ result.kind = "returned"
    /\ total_pos > 0
    /\ Len(processed) >= 3

\* C19: both calls end, and on the way every step that stays in the inner
\* loop moves the position on by at least one byte, every pass of the outer
\* loop that goes on has read at least one new byte, and the pass ends at the
\* read that returns nothing.
C19_Terminates ==
    /\ <>(pass = 2 /\ pc = "done")
    /\ [][/\ (pc = "decode" /\ pc' = "decode") => pos' >= pos + 1
          /\ (pc = "decode" /\ pc' # "decode") => pc' \in {"read", "done"}
          /\ (pc = "read" /\ pc' = "decode") => fpos' >= fpos + 1
          /\ (pc = "read" /\ pc' # "decode") => (fpos = Len(stream) /\ pc' = "done")]_vars

\* C19 witness: the second call has ended after a refill that followed a
\* break of the inner loop.
C19_Witness ==
    /\ family = "bytes"
    /\ pass = 2
    /\ pc = "done"
    /\ total_pos > 0
    /\ nread >= 2

\* The bytes of the file from the cursor on.
C20_Remainder == SubSeq(stream, total_pos + pos + 1, Len(stream))

\* C20: when the pass ends at the read that returns nothing, the bytes from
\* the cursor on are none or a message cut short; ending the pass stores and
\* counts nothing, the anomalies counted are those of the processed items
\* only, and read_data returns whenever a Header was stored, in either mode.
C20_TruncatedTailDiscarded ==
    [][(family = "bytes" /\ pc = "read" /\ pc' = "done") =>
          /\ \/ C20_Remainder = <<>>
             \/ DecodeMessage(C20_Remainder, version) = InsufficientBytes
          /\ UNCHANGED <<collections, unknown_msgs, too_old_msgs, total_messages, logged>>
          /\ unknown_msgs =
                Cardinality({i \in 1..Len(processed) : processed[i].msg = UnknownByte})
          /\ (collections["Header"] # <<>>) => result'.kind = "returned"]_vars

\* C20 witness: in strict mode read_data has returned although the file ends
\* in a message cut short.
C20_Witness ==
    /\ family = "bytes"
    /\ pc = "done"
    /\ fail_on_errors
    /\ result.kind = "returned"
    /\ total_pos + pos < Len(stream)


\* The last entry of a collection holds msg under the timestamp t, and is
\* the one entry added by the step.
StoredLast(ty, t, msg) ==
    /\ Len(collections'[ty]) = Len(collections[ty]) + 1
    /\ SubSeq(collections'[ty], 1, Len(collections[ty])) = collections[ty]
    /\ collections'[ty][Len(collections'[ty])].t = t
    /\ collections'[ty][Len(collections'[ty])].msg = msg

\* C21: a Header whose time is not above the ceiling sets current_timestamp,
\* last_full_timestamp and start_timestamp to its time and the wrap counter to
\* 0, and is stored under that time.
C21_HeaderAdopted ==
    [][(event'.kind = "header" /\ nread' = nread + 1
            /\ ~TsLess(MAX_TIMESTAMP, event'.msg.current_time)) =>
          /\ current_timestamp' = event'.msg.current_time
          /\ last_full_timestamp' = event'.msg.current_time
          /\ start_timestamp' = event'.msg.current_time
          /\ lsb_wrap_counter' = 0
          /\ StoredLast("Header", event'.msg.current_time, event'.msg)]_vars

\* C21 witness: a Header was adopted after a wrap had been counted.
C21_Witness ==
    /\ event.kind = "header"
    /\ current_timestamp = event.msg.current_time
    /\ lsb_wrap_counter = 0
    /\ \E i \in 1..Len(collections["Temperature"]) :
          collections["Temperature"][i].t.hi # last_full_timestamp.hi

\* C22: in non-strict mode a Header whose time is above the ceiling leaves
\* current_timestamp, last_full_timestamp, start_timestamp and the wrap counter
\* as they are, is stored under the unchanged current_timestamp and sets
\* header_found.
C22_FutureHeaderNotAdopted ==
    [][(event'.kind = "header" /\ nread' = nread + 1 /\ ~fail_on_errors
            /\ TsLess(MAX_TIMESTAMP, event'.msg.current_time)) =>
          /\ UNCHANGED <<current_timestamp, last_full_timestamp, start_timestamp,
                         lsb_wrap_counter>>
          /\ header_found'
          /\ pc' = "decode"
          /\ StoredLast("Header", current_timestamp, event'.msg)]_vars

\* C22 witness: in non-strict mode a Header above the ceiling was stored after
\* an adopted one, under that one's time.
C22_Witness ==
    /\ ~fail_on_errors
    /\ event.kind = "header"
    /\ TsLess(MAX_TIMESTAMP, event.msg.current_time)
    /\ header_found
    /\ Len(collections["Header"]) = 2
    /\ collections["Header"][2].t = T0
    /\ current_timestamp = T0


\* C23: a Timestamp (sync) read after the Header is adopted exactly when its
\* time is not above the ceiling and not below last_full_timestamp; an adopted
\* one sets current_timestamp and last_full_timestamp to its time and the wrap
\* counter to 0.
C23_SyncAdoptedIff ==
    [][(event'.kind = "sync" /\ nread' = nread + 1) =>
          ((/\ ~TsLess(MAX_TIMESTAMP, event'.msg.current_time)
            /\ ~TsLess(event'.msg.current_time, last_full_timestamp))
           <=>
           (/\ current_timestamp' = event'.msg.current_time
            /\ last_full_timestamp' = event'.msg.current_time
            /\ lsb_wrap_counter' = 0
            /\ pc' = "decode"))]_vars

\* C23 witness: a sync was adopted after a wrap had been counted; it took
\* current_timestamp back into the 65536 ms window of its own time.
C23_Witness ==
    /\ event.kind = "sync"
    /\ current_timestamp = event.msg.current_time
    /\ last_full_timestamp = event.msg.current_time
    /\ lsb_wrap_counter = 0
    /\ \E i \in 1..Len(collections["Temperature"]) :
          TsLess(current_timestamp, collections["Temperature"][i].t)

\* C24: in non-strict mode a rejected sync leaves current_timestamp,
\* last_full_timestamp and the wrap counter as they are and is stored in the
\* Timestamp collection, under current_timestamp as an adopted one is.
C24_RejectedSyncStored ==
    [][(event'.kind = "sync" /\ nread' = nread + 1 /\ ~fail_on_errors) =>
          /\ (TsLess(MAX_TIMESTAMP, event'.msg.current_time)
                 \/ TsLess(event'.msg.current_time, last_full_timestamp))
               => UNCHANGED <<current_timestamp, last_full_timestamp, lsb_wrap_counter>>
          /\ pc' = "decode"
          /\ StoredLast("Timestamp", current_timestamp', event'.msg)]_vars

\* C24 witness: in non-strict mode a sync below last_full_timestamp was
\* stored under the current timestamp, one counted wrap past the Header's.
C24_Witness ==
    /\ ~fail_on_errors
    /\ event.kind = "sync"
    /\ TsLess(event.msg.current_time, last_full_timestamp)
    /\ Len(collections["Timestamp"]) = 1
    /\ collections["Timestamp"][1].t = current_timestamp
    /\ lsb_wrap_counter = 1
    /\ current_timestamp.hi = T0.hi + 1
    /\ last_full_timestamp = T0


\* C25: last_full_timestamp never decreases over the decode pass, whatever
\* the sequence of Header, Timestamp and other messages.
C25_LastFullNeverDecreases ==
    [][~TsLess(last_full_timestamp', last_full_timestamp)]_vars

\* Only a Header takes last_full_timestamp back: every other step leaves it
\* or raises it.
C25_OnlyHeaderDecreases ==
    [][TsLess(last_full_timestamp', last_full_timestamp) =>
          /\ event'.kind = "header"
          /\ last_full_timestamp' = event'.msg.current_time]_vars


\* C26: at every point of the decode pass
\* floor(current_timestamp / 65536) = floor(last_full_timestamp / 65536) + lsb_wrap_counter.
C26_WrapCounterInvariant ==
    current_timestamp.hi = last_full_timestamp.hi + lsb_wrap_counter

\* C26 witness: a tick wrapped forward after the last adopted Header; the
\* counter stands at 1 and current_timestamp one window past last_full_timestamp.
C26_Witness ==
    /\ event.kind = "ticked"
    /\ lsb_wrap_counter = 1
    /\ current_timestamp.hi = last_full_timestamp.hi + 1
    /\ last_full_timestamp = T0

\* C26 witness of the backward wrap: the counter stands at -1.
C26_BackwardWitness ==
    /\ event.kind = "ticked"
    /\ lsb_wrap_counter = -1
    /\ current_timestamp.hi = last_full_timestamp.hi - 1


\* C27: a block message read after the Header is stored under its own time,
\* exactly as decoded, and leaves current_timestamp, last_full_timestamp, the
\* wrap counter, prev_timestamp and current_off_dac as they are; it is neither
\* counted or reported as too old nor reported as a jump, in either mode.
C27_BlockBypassesReconstruction ==
    [][(event'.kind = "block" /\ nread' = nread + 1) =>
          /\ StoredLast(event'.msg.type, event'.msg.time, event'.msg)
          /\ UNCHANGED <<current_timestamp, last_full_timestamp, lsb_wrap_counter,
                         prev_timestamp, current_off_dac, too_old_msgs, logged>>
          /\ pc' = "decode"]_vars

\* C27 witness: a PPG block was stored while current_timestamp was below the
\* floor and its own time was more than 1000 ms past prev_timestamp.
C27_Witness ==
    /\ event.kind = "block"
    /\ event.msg.type = "PulseBlockPpg"
    /\ TsLess(current_timestamp, MIN_TIMESTAMP)
    /\ IsJump(prev_timestamp, event.msg.time)
    /\ ShouldAdjustPpg(version)
    /\ too_old_msgs = 1
    /\ pc = "decode"

\* C27 witness in strict mode: a block read below the floor did not raise.
C27_StrictWitness ==
    /\ fail_on_errors
    /\ event.kind = "block"
    /\ TsLess(current_timestamp, MIN_TIMESTAMP)
    /\ pc = "decode"


\* The stored entries of the messages that went through the tick
\* reconstruction.
C28_Ticked ==
    {e \in StoredEntries :
        e.msg.type \notin {"Header", "Timestamp", "PulseBlockEcg", "PulseBlockPpg"}}

\* The timestamp the most recent of them was stored under, 0 when there is none.
C28_PrevTicked ==
    IF C28_Ticked = {} THEN Zero
    ELSE (CHOOSE e \in C28_Ticked : \A f \in C28_Ticked : f.at <= e.at).t

\* C28: a message that reaches the jump detection is reported as a jump
\* exactly when the timestamp of the most recent tick-reconstructed message is
\* above 0 and its own reconstructed timestamp is more than 1000 ms above it;
\* Header, sync and block messages do not move that reference. The report is
\* a raise in strict mode and a log line in non-strict mode, where the message
\* is stored and becomes the reference whether reported or not.
C28_JumpIff ==
    [][(event'.kind = "ticked" /\ nread' = nread + 1
            /\ ~(event'.too_old /\ fail_on_errors)) =>
          /\ prev_timestamp = C28_PrevTicked
          /\ event'.jump <=> (/\ TsLess(Zero, C28_PrevTicked)
                              /\ TsLess(TsPlus(C28_PrevTicked, 1000), current_timestamp'))
          /\ event'.jump => "jump" \in logged'
          /\ ~event'.jump => (logged' \ {"timestamp_too_old"}) = (logged \ {"timestamp_too_old"})
          /\ IF fail_on_errors /\ event'.jump
             THEN /\ pc' = "done"
                  /\ result' = Raised("LookupError", "jump")
             ELSE /\ pc' = "decode"
                  /\ StoredLast(event'.msg.type, current_timestamp',
                                Corrected(event'.msg, version, current_off_dac))
                  /\ prev_timestamp' = current_timestamp'
                  /\ total_messages' = total_messages + 1
                  /\ UNCHANGED <<last_full_timestamp, start_timestamp, unknown_msgs>>]_vars

\* C28 witness: in non-strict mode a message 1001 ms past the previous ticked
\* one was reported and stored.
C28_Witness ==
    /\ ~fail_on_errors
    /\ event.kind = "ticked"
    /\ event.jump
    /\ "jump" \in logged
    /\ prev_timestamp = current_timestamp
    /\ \E e \in C28_Ticked : TsPlus(e.t, 1001) = current_timestamp

\* C28 witness of the boundary: a message exactly 1000 ms past the previous
\* ticked one was not reported.
C28_BoundaryWitness ==
    /\ event.kind = "ticked"
    /\ ~event.jump
    /\ \E e \in C28_Ticked : e.at = nread - 1 /\ TsPlus(e.t, 1000) = current_timestamp

\* C28 witness of a backward step: a message below the previous ticked one
\* was not reported.
C28_BackwardWitness ==
    /\ event.kind = "ticked"
    /\ ~event.jump
    /\ \E e \in C28_Ticked : e.at = nread - 1 /\ TsLess(TsPlus(current_timestamp, 1000), e.t)

\* C28 witness of the reference: a sync moved current_timestamp by 5000 ms
\* between two ticked messages, and the second was reported against the first.
C28_SyncWitness ==
    /\ event.kind = "ticked"
    /\ event.jump
    /\ Len(collections["Timestamp"]) = 1
    /\ collections["Timestamp"][1].at = nread - 1
    /\ last_full_timestamp = TsPlus(T0, 5000)

\* C28 witness in strict mode: the jump raised.
C28_StrictWitness ==
    /\ fail_on_errors
    /\ event.kind = "ticked"
    /\ result = Raised("LookupError", "jump")


\* C29: the too-old check is made on the timestamp after tick
\* reconstruction: a message is reported (and counted) as too old exactly when
\* the reconstructed timestamp, the one it is stored under, is below the floor.
C29_TooOldAfterReconstruction ==
    [][(event'.kind = "ticked" /\ nread' = nread + 1) =>
          (event'.too_old <=>
             TsLess(Reconstruct(current_timestamp, TwoLsb(event'.msg)), MIN_TIMESTAMP))]_vars

\* The check as made: on current_timestamp as the previous message left it;
\* in non-strict mode the message is counted, reported and still stored under
\* the reconstructed timestamp.
C29_TooOldBeforeReconstruction ==
    [][(event'.kind = "ticked" /\ nread' = nread + 1) =>
          /\ event'.too_old <=> TsLess(current_timestamp, MIN_TIMESTAMP)
          /\ too_old_msgs' = too_old_msgs + (IF event'.too_old THEN 1 ELSE 0)
          /\ (event'.too_old /\ fail_on_errors) =>
                 (pc' = "done" /\ result' = Raised("LookupError", "timestamp_too_old"))
          /\ (event'.too_old /\ ~fail_on_errors) =>
                 /\ "timestamp_too_old" \in logged'
                 /\ StoredLast(event'.msg.type,
                               Reconstruct(current_timestamp, TwoLsb(event'.msg)),
                               Corrected(event'.msg, version, current_off_dac))]_vars

\* A message stored at or above the floor that was counted as too old.
C29_ReportedAboveFloor ==
    /\ ~fail_on_errors
    /\ event.kind = "ticked"
    /\ event.too_old
    /\ too_old_msgs = 1
    /\ ~TsLess(current_timestamp, MIN_TIMESTAMP)
    /\ \E e \in StoredEntries : e.at = nread /\ e.t = current_timestamp

\* A message stored below the floor that was not counted as too old.
C29_UnreportedBelowFloor ==
    /\ event.kind = "ticked"
    /\ ~event.too_old
    /\ too_old_msgs = 0
    /\ TsLess(current_timestamp, MIN_TIMESTAMP)
    /\ \E e \in StoredEntries : e.at = nread /\ e.t = current_timestamp


\* C30, as stated: a message with no tick, or with tick 0, is reconstructed
\* with tick 0 and current_timestamp becomes (last_full_timestamp >> 16) << 16.
C30_TickZeroCollapsesToLastFull ==
    [][(event'.kind = "ticked" /\ nread' = nread + 1 /\ TwoLsb(event'.msg) = 0
            /\ ~(event'.too_old /\ fail_on_errors)) =>
          current_timestamp' = TS(last_full_timestamp.hi, 0)]_vars

\* C30, amended: a message with no tick, or with tick 0, is reconstructed
\* with tick 0 like any other tick below 100: when the low 16 bits of
\* current_timestamp are above 65000 a forward wrap is counted first, and
\* current_timestamp becomes
\* ((last_full_timestamp >> 16) + lsb_wrap_counter) << 16
\* with the wrap counter as this message leaves it, which is
\* (last_full_timestamp >> 16) << 16 only when that counter is 0.
C30_TickZeroKeepsWraps ==
    [][(event'.kind = "ticked" /\ nread' = nread + 1 /\ TwoLsb(event'.msg) = 0
            /\ ~(event'.too_old /\ fail_on_errors)) =>
          /\ lsb_wrap_counter' =
               lsb_wrap_counter + (IF current_timestamp.lo > 65000 THEN 1 ELSE 0)
          /\ current_timestamp' = TS(last_full_timestamp.hi + lsb_wrap_counter', 0)
          /\ UNCHANGED last_full_timestamp]_vars

\* C30 witness: a message with tick 0 was read when the low 16 bits stood
\* above 65000: it is stored one window past last_full_timestamp, low bits 0.
C30_Witness ==
    /\ event.kind = "ticked"
    /\ TwoLsb(event.msg) = 0
    /\ lsb_wrap_counter = 1
    /\ last_full_timestamp = T0
    /\ current_timestamp = TS(T0.hi + 1, 0)
    /\ \E e \in StoredEntries : e.at = nread /\ e.t = current_timestamp

\* C30 witness without a wrap: tick 0 read with the counter at 0 gives
\* (last_full_timestamp >> 16) << 16.
C30_NoWrapWitness ==
    /\ event.kind = "ticked"
    /\ TwoLsb(event.msg) = 0
    /\ lsb_wrap_counter = 0
    /\ current_timestamp = TS(last_full_timestamp.hi, 0)
    /\ last_full_timestamp = T0


\* The true time of a message with the given tick that follows, less than
\* 65536 ms later and not earlier, a message of true time prev: the first time
\* from prev on whose low 16 bits are the tick.
C31_TrueAfter(prev, tick) ==
    IF tick >= prev.lo THEN TS(prev.hi, tick) ELSE TS(prev.hi + 1, tick)

\* The true time of the k-th ticked message after the Header, the Header's
\* time being true (k = 0).
RECURSIVE C31_TrueTime(_)
C31_TrueTime(k) ==
    IF k = 0
    THEN collections["Header"][1].msg.current_time
    ELSE C31_TrueAfter(C31_TrueTime(k - 1),
                       collections["Temperature"][k].wire.two_lsb_of_timestamp)

\* C31: when the Header time is true, the ticked messages arrive in true-time
\* order and consecutive true times are less than 65536 ms apart, every
\* reconstructed timestamp is the true time of its message, and the
\* reconstructed timestamps are non-decreasing.
C31_ReconstructionExact ==
    (/\ family = "wrap"
     /\ pc = "decode"
     /\ Len(collections["Header"]) = 1
     /\ collections["Header"][1].at = 1) =>
        /\ \A k \in 1..Len(collections["Temperature"]) :
              collections["Temperature"][k].t = C31_TrueTime(k)
        /\ \A k \in 2..Len(collections["Temperature"]) :
              ~TsLess(collections["Temperature"][k].t, collections["Temperature"][k - 1].t)

\* What the wrap step gives: the true time after prev is reconstructed when
\* a wrap falls between low bits above 65000 and a tick below 100, and a
\* tick above 65000 does not follow low bits below 100.
C31_ExactWhenWrapDetected ==
    [][(/\ event'.kind = "ticked" /\ nread' = nread + 1
        /\ ~(event'.too_old /\ fail_on_errors)
        /\ TwoLsb(event'.msg) < current_timestamp.lo
              => (current_timestamp.lo > 65000 /\ TwoLsb(event'.msg) < 100)
        /\ ~(TwoLsb(event'.msg) > 65000 /\ current_timestamp.lo < 100)) =>
          current_timestamp' = C31_TrueAfter(current_timestamp, TwoLsb(event'.msg))]_vars

\* A wrap between two ticked messages 635 ms apart (ticks 65000 and 99) went
\* undetected: the second is stored 64901 ms before the first.
C31_UndetectedWrap ==
    /\ family = "wrap"
    /\ Len(collections["Header"]) = 1
    /\ Len(collections["Temperature"]) = 2
    /\ collections["Temperature"][1].t = TS(T0.hi, 65000)
    /\ collections["Temperature"][2].t = TS(T0.hi, 99)


\* The samples of the PPG blocks of channel ch.
C32_PpgSamples(ch) ==
    UNION {{b.msg.samples[k] : k \in 1..Len(b.msg.samples)} :
              b \in {collections["PulseBlockPpg"][i] :
                        i \in {j \in 1..Len(collections["PulseBlockPpg"]) :
                                  collections["PulseBlockPpg"][j].msg.channel = ch}}}

\* C32: a natively decoded PulseRawList is stored with every PPG slot negated
\* once and no offset applied, whatever current_off_dac and the firmware
\* version, and with its ECG slots as decoded; a PPG block is stored as decoded
\* by the decode pass and its samples are negated once, by the reassembly.
C32_ListNegatedOnce ==
    [][/\ (event'.kind = "ticked" /\ nread' = nread + 1
              /\ event'.msg.type = "PulseRawList" /\ pc' = "decode") =>
            /\ Len(collections'["PulseRawList"]) = Len(collections["PulseRawList"]) + 1
            /\ LET e == collections'["PulseRawList"][Len(collections'["PulseRawList"])]
               IN  /\ e.wire = event'.msg
                   /\ e.msg.ecgs = e.wire.ecgs
                   /\ Len(e.msg.ppgs) = Len(e.wire.ppgs)
                   /\ \A i \in 1..Len(e.wire.ppgs) : e.msg.ppgs[i] = -(e.wire.ppgs[i])
       /\ (pc = "convert_finish" /\ pc' = "done") =>
            /\ \A i \in 1..Len(collections["PulseBlockPpg"]) :
                  collections["PulseBlockPpg"][i].msg = collections["PulseBlockPpg"][i].wire
            /\ \A i \in 1..Len(collections'["PulseRawList"]) :
                  \A ch \in 0..(max_ppg_channels - 1) :
                     LET v == collections'["PulseRawList"][i].msg.ppgs[ch + 1]
                     IN  v = 0 \/ \E s \in C32_PpgSamples(ch) : v = -s]_vars

\* C32 witness: a PulseRawList was stored negated, without the offset, with
\* current_off_dac not 0 and a firmware that has PpgRaw corrected by it.
C32_Witness ==
    /\ event.kind = "ticked"
    /\ event.msg.type = "PulseRawList"
    /\ current_off_dac # 0
    /\ ShouldAdjustPpg(version)
    /\ Len(collections["PulseRawList"]) = 1
    /\ collections["PulseRawList"][1].msg.ppgs = <<-2>>
    /\ collections["PulseRawList"][1].msg.ecgs = <<1>>

\* C32 witness below firmware 4.0.1: the list is negated all the same.
C32_OldFirmwareWitness ==
    /\ event.kind = "ticked"
    /\ event.msg.type = "PulseRawList"
    /\ ~ShouldAdjustPpg(version)
    /\ collections["PulseRawList"][1].msg.ppgs = <<-2>>

\* C32 witness of the reassembly: a PPG block sample 9 is returned as -9.
C32_BlockWitness ==
    /\ pc = "done"
    /\ collections["PulseBlockPpg"] = <<>>
    /\ \E i \in 1..Len(collections["PulseRawList"]) :
          collections["PulseRawList"][i].msg.ppgs[1] = -9


\* The k-th sample of a block is the last of the block assigned its time.
C33_LastAt(lock, counter, n, k) ==
    \A m \in (k + 1)..n :
       TsPlus(lock, ((counter + m - 1) * 1000) \div samplerate)
          # TsPlus(lock, ((counter + k - 1) * 1000) \div samplerate)

\* What the loop over the samples of one block of channel ch leaves: the
\* counter moved by one per sample, and every sample in the slot of its
\* channel of the entry keyed int(lock + counter * 1000 / samplerate), the
\* counter being the one the sample met: the ECG value as it is, the PPG
\* value negated.
C33_Assigned(kind, block, lock, counter, counter2) ==
    LET n == Len(block.samples)
    IN  /\ counter2 = counter + n
        /\ \A k \in 1..n :
              LET samplestamp == TsPlus(lock, ((counter + k - 1) * 1000) \div samplerate)
              IN  /\ Cardinality({i \in 1..Len(merged_data') :
                                     merged_data'[i].t = samplestamp}) = 1
                  /\ C33_LastAt(lock, counter, n, k) =>
                        \E i \in 1..Len(merged_data') :
                           /\ merged_data'[i].t = samplestamp
                           /\ IF kind = "ecg"
                              THEN merged_data'[i].msg.ecgs[block.channel + 1]
                                      = block.samples[k]
                              ELSE merged_data'[i].msg.ppgs[block.channel + 1]
                                      = -(block.samples[k])

\* The block at blk is the first of its channel in its collection.
C33_FirstOfChannel(ty) ==
    \A j \in 1..(blk - 1) :
       collections[ty][j].msg.channel # collections[ty][blk].msg.channel

\* C33: the first block of a channel locks the channel to the block's time
\* with sample counter 0; every sample of every block is assigned the
\* timestamp int(locked_start + sample_counter * interval), the counter moving
\* by one per sample, and is stored in its channel's slot of the entry of that
\* timestamp, the ECG value as it is and the PPG value negated.
C33_SampleTimestamps ==
    [][/\ (pc = "ecg_check" /\ C33_FirstOfChannel("PulseBlockEcg")) =>
            LET b == collections["PulseBlockEcg"][blk].msg
            IN  /\ locked_initial_ecg_timestamp'[b.channel] = b.time
                /\ ecg_sample_counters'[b.channel] = 0
       /\ (pc = "ppg_check" /\ C33_FirstOfChannel("PulseBlockPpg")) =>
            LET b == collections["PulseBlockPpg"][blk].msg
            IN  /\ locked_initial_ppg_timestamp'[b.channel] = b.time
                /\ ppg_sample_counters'[b.channel] = 0
       /\ pc = "ecg_assign" =>
            LET b == collections["PulseBlockEcg"][blk].msg
            IN  C33_Assigned("ecg", b, locked_initial_ecg_timestamp[b.channel],
                             ecg_sample_counters[b.channel],
                             ecg_sample_counters'[b.channel])
       /\ pc = "ppg_assign" =>
            LET b == collections["PulseBlockPpg"][blk].msg
            IN  C33_Assigned("ppg", b, locked_initial_ppg_timestamp[b.channel],
                             ppg_sample_counters[b.channel],
                             ppg_sample_counters'[b.channel])]_vars

\* C33 witness: the second block of a PPG channel at 2 ms per sample was
\* assigned from sample counter 2: its sample 5 stands negated at the locked
\* time + 4 ms.
C33_Witness ==
    /\ family = "ppg_drift"
    /\ pc = "convert_finish"
    /\ locked_initial_ppg_timestamp[0] = B0
    /\ ppg_sample_counters[0] = 3
    /\ \E i \in 1..Len(merged_data) :
          /\ merged_data[i].t = TsPlus(B0, 4)
          /\ merged_data[i].msg.ppgs[1] = -5
    /\ \E i \in 1..Len(merged_data) :
          /\ merged_data[i].t = B0
          /\ merged_data[i].msg.ecgs[1] = 9
          /\ merged_data[i].msg.ppgs[1] = -7

\* C33 witness at half a millisecond per sample: the samples 7 and 8 of one
\* block were both assigned the locked time.
C33_DenseWitness ==
    /\ family = "dense"
    /\ pc = "ppg_check"
    /\ ecg_sample_counters[0] = 2
    /\ Len(merged_data) = 1
    /\ merged_data[1].t = B0
    /\ merged_data[1].msg.ecgs[1] = 8


\* The timestamps the block's samples are assigned, in order.
C34_Stamps(block, lock, counter) ==
    [k \in 1..Len(block.samples) |-> SampleStamp(lock, counter + k - 1)]

\* The samples of the block that meet a slot already written: by an earlier
\* block of the channel or by an earlier sample of the block.
C34_Collisions(kind, block, stamps) ==
    {k \in 1..Len(stamps) :
        \/ <<kind, block.channel, stamps[k]>> \in written
        \/ \E m \in 1..(k - 1) : stamps[m] = stamps[k]}

\* The slots of an entry other than the one of channel ch of the kind.
C34_OtherSlots(kind, ch, prl) ==
    IF kind = "ecg"
    THEN <<[prl.ecgs EXCEPT ![ch + 1] = 0], prl.ppgs>>
    ELSE <<prl.ecgs, [prl.ppgs EXCEPT ![ch + 1] = 0]>>

\* What the samples of one block leave: the slot of a timestamp holds the
\* last sample written to it, every sample that met a written slot is counted
\* in the channel's duplicate counter (dup to dup2), and no other slot of any
\* entry changes.
C34_Writes(kind, block, lock, counter, dup, dup2) ==
    LET stamps == C34_Stamps(block, lock, counter)
        ch == block.channel
    IN  /\ \A k \in 1..Len(stamps) :
              (\A m \in (k + 1)..Len(stamps) : stamps[m] # stamps[k]) =>
                 \E i \in 1..Len(merged_data') :
                    /\ merged_data'[i].t = stamps[k]
                    /\ IF kind = "ecg"
                       THEN merged_data'[i].msg.ecgs[ch + 1] = block.samples[k]
                       ELSE merged_data'[i].msg.ppgs[ch + 1] = -(block.samples[k])
        /\ dup2 >= dup + Cardinality(C34_Collisions(kind, block, stamps))
        /\ Len(merged_data') >= Len(merged_data)
        /\ \A i \in 1..Len(merged_data) :
              /\ merged_data'[i].t = merged_data[i].t
              /\ C34_OtherSlots(kind, ch, merged_data'[i].msg)
                    = C34_OtherSlots(kind, ch, merged_data[i].msg)
              /\ (\A k \in 1..Len(stamps) : stamps[k] # merged_data[i].t) =>
                    merged_data'[i] = merged_data[i]

\* C34: a sample written to a timestamp and channel slot that was written
\* before overwrites it and is counted as a duplicate of its channel; writes to
\* the same timestamp on other channels or of the other kind leave the slot as
\* it is.
C34_LastWriteWins ==
    [][/\ pc = "ecg_assign" =>
            LET b == collections["PulseBlockEcg"][blk].msg
            IN  /\ C34_Writes("ecg", b, locked_initial_ecg_timestamp[b.channel],
                              ecg_sample_counters[b.channel],
                              dup_ecg_timestamps[b.channel],
                              dup_ecg_timestamps'[b.channel])
                /\ \A c \in DOMAIN dup_ecg_timestamps :
                      c # b.channel => dup_ecg_timestamps'[c] = dup_ecg_timestamps[c]
                /\ UNCHANGED dup_ppg_timestamps
       /\ pc = "ppg_assign" =>
            LET b == collections["PulseBlockPpg"][blk].msg
            IN  /\ C34_Writes("ppg", b, locked_initial_ppg_timestamp[b.channel],
                              ppg_sample_counters[b.channel],
                              dup_ppg_timestamps[b.channel],
                              dup_ppg_timestamps'[b.channel])
                /\ \A c \in DOMAIN dup_ppg_timestamps :
                      c # b.channel => dup_ppg_timestamps'[c] = dup_ppg_timestamps[c]
                /\ UNCHANGED dup_ecg_timestamps]_vars

\* C34 witness: at half a millisecond per sample the ECG samples 7 and 8 of
\* channel 0 and the PPG samples 9 and 4 of channel 0 met at one timestamp, with
\* the ECG sample 5 of channel 1: the later of each pair stands, the other
\* slots are as written, and both channels 0 have their collision counted.
C34_Witness ==
    /\ family = "dense"
    /\ pc = "convert_finish"
    /\ Len(merged_data) = 1
    /\ merged_data[1].msg.ecgs = <<8, 5>>
    /\ merged_data[1].msg.ppgs = <<-4>>
    /\ dup_ecg_timestamps[0] >= 1
    /\ dup_ppg_timestamps[0] >= 1

\* The counters in that state: every write to an entry that exists is
\* counted, the first write of ECG channel 1 and of PPG channel 0 included.
C34_CountedWithoutCollision ==
    /\ C34_Witness
    /\ dup_ecg_timestamps = (0 :> 1 @@ 1 :> 1)
    /\ dup_ppg_timestamps = (0 :> 2)


\* The entries of seq have pairwise distinct timestamps, and these are the
\* timestamps assigned to the ECG and PPG block samples, listed in assigned.
C35_OnePerStamp(seq, assigned) ==
    /\ \A i, j \in 1..Len(seq) : seq[i].t = seq[j].t => i = j
    /\ {seq[i].t : i \in 1..Len(seq)} = {w[3] : w \in assigned}

\* C35: the reassembled sequence holds exactly one entry per distinct
\* computed sample timestamp: its timestamps are pairwise distinct and are
\* exactly the timestamps assigned to some ECG or PPG block sample.
C35_OneEntryPerTimestamp ==
    [][/\ pc' \in {"ecg_check", "ecg_assign", "ppg_check", "ppg_assign", "convert_finish"}
            => C35_OnePerStamp(merged_data', written')
       /\ (pc = "convert_finish" /\ pc' = "done") =>
            /\ C35_OnePerStamp(collections'["PulseRawList"], written)
            /\ result'.kind = "returned" =>
                  C35_OnePerStamp(result'.data.multi_ecg_ppg_data, written)]_vars

\* C35 witness: samples of two ECG channels and two PPG channels, five in
\* all, were assigned two timestamps and returned as two entries.
C35_Witness ==
    /\ pc = "done"
    /\ result.kind = "returned"
    /\ Cardinality(written) >= 3
    /\ Len(result.data.multi_ecg_ppg_data) = 2
    /\ {result.data.multi_ecg_ppg_data[i].t : i \in 1..2} = {B0, TsPlus(B0, 1)}
    /\ \E ch \in 0..1 : <<"ecg", ch, B0>> \in written /\ <<"ppg", 0, B0>> \in written


\* The timestamps assigned so far to the samples of channel ch of the kind.
C36_Assigned(kind, ch) == {w[3] : w \in {v \in written : v[1] = kind /\ v[2] = ch}}

\* The number of samples in the first n blocks of seq that are of channel ch.
RECURSIVE C36_SampleCount(_, _, _)
C36_SampleCount(seq, ch, n) ==
    IF n = 0 THEN 0
    ELSE C36_SampleCount(seq, ch, n - 1)
            + (IF seq[n].msg.channel = ch THEN Len(seq[n].msg.samples) ELSE 0)

\* The samples of a block are assigned strictly increasing timestamps, all
\* above those assigned to the channel before.
C36_Increasing(kind, block, lock, counter) ==
    LET stamps == C34_Stamps(block, lock, counter)
    IN  /\ \A k \in 2..Len(stamps) : TsLess(stamps[k - 1], stamps[k])
        /\ \A k \in 1..Len(stamps) :
              \A t \in C36_Assigned(kind, block.channel) : TsLess(t, stamps[k])

\* Every sample of the blocks of seq has a timestamp of its own in its
\* channel, and stands in the reassembled entries.
C36_AllPresent(kind, seq) ==
    \A i \in 1..Len(seq) :
       LET b == seq[i].msg
       IN  /\ Cardinality(C36_Assigned(kind, b.channel))
                 = C36_SampleCount(seq, b.channel, Len(seq))
           /\ \A k \in 1..Len(b.samples) :
                 \E j \in 1..Len(merged_data) :
                    IF kind = "ecg"
                    THEN merged_data[j].msg.ecgs[b.channel + 1] = b.samples[k]
                    ELSE merged_data[j].msg.ppgs[b.channel + 1] = -(b.samples[k])

\* C36: at a nominal interval of 1, 2, 4 or 8 ms the timestamps assigned to
\* the successive samples of a channel are strictly increasing, whatever the
\* start times of its blocks (early, late, re-locked), so no two samples of a
\* channel share a timestamp and every sample is in the reassembled output.
C36_StrictlyIncreasing ==
    [][(samplerate \in {1000, 500, 250, 125}) =>
         (/\ pc = "ecg_assign" =>
               LET b == collections["PulseBlockEcg"][blk].msg
               IN  C36_Increasing("ecg", b, locked_initial_ecg_timestamp[b.channel],
                                  ecg_sample_counters[b.channel])
          /\ pc = "ppg_assign" =>
               LET b == collections["PulseBlockPpg"][blk].msg
               IN  C36_Increasing("ppg", b, locked_initial_ppg_timestamp[b.channel],
                                  ppg_sample_counters[b.channel])
          /\ (pc = "convert_finish" /\ pc' = "done") =>
               /\ C36_AllPresent("ecg", collections["PulseBlockEcg"])
               /\ C36_AllPresent("ppg", collections["PulseBlockPpg"]))]_vars

\* C36 witness: at 4 ms per sample a block of two samples was followed by an
\* early block, stated 6 ms before its expected time: its sample went to the
\* expected time, 8 ms after the locked time.
C36_Witness ==
    /\ family = "ecg_250"
    /\ pc = "convert_finish"
    /\ ecg_early_counters[0] = 1
    /\ C36_Assigned("ecg", 0) = {B0, TsPlus(B0, 4), TsPlus(B0, 8)}

\* C36 witness of a re-lock: at 8 ms per sample a block stated 6 ms after
\* its expected time took its own time.
C36_RelockWitness ==
    /\ family = "ppg_125"
    /\ pc = "convert_finish"
    /\ ppg_late_counters[0] = 1
    /\ locked_initial_ppg_timestamp[0] = TsPlus(B0, 22)
    /\ C36_Assigned("ppg", 0) = {B0, TsPlus(B0, 8), TsPlus(B0, 22)}

\* C36 witness of a late block that does not re-lock, at 8 ms per sample.
C36_LateWitness ==
    /\ family = "ppg_125"
    /\ pc = "convert_finish"
    /\ ppg_late_counters[0] = 1
    /\ locked_initial_ppg_timestamp[0] = B0
    /\ C36_Assigned("ppg", 0) = {B0, TsPlus(B0, 8), TsPlus(B0, 16)}

\* C36 witness of a block of time 0: the channel took the time of its next
\* block with the sample counter kept.
C36_ZeroTimeWitness ==
    /\ family = "ecg_250"
    /\ pc = "convert_finish"
    /\ locked_initial_ecg_timestamp[0] = B0
    /\ C36_Assigned("ecg", 0) = {Zero, TsPlus(B0, 4), TsPlus(B0, 8)}


\* seq is a prefix of seq2
C37_Prefix(seq, seq2) ==
    /\ Len(seq) <= Len(seq2)
    /\ SubSeq(seq2, 1, Len(seq)) = seq

\* C37: in non-strict mode every message decoded from the first Header on is
\* appended once to the sequence of its own type, in arrival order; until the
\* reassembly no stored entry is removed, moved or re-keyed.
C37_AppendOnly ==
    [][/\ (~fail_on_errors /\ nread' = nread + 1 /\ header_found'
              /\ event'.kind # "unknown") =>
            /\ Len(collections'[event'.msg.type]) = Len(collections[event'.msg.type]) + 1
            /\ LET e == collections'[event'.msg.type][Len(collections'[event'.msg.type])]
               IN  /\ e.wire = event'.msg
                   /\ e.at = nread'
                   /\ \A f \in StoredEntries : f.at < e.at
            /\ \A ty \in Types :
                  ty # event'.msg.type => collections'[ty] = collections[ty]
       /\ pc # "convert_finish" =>
            \A ty \in Types : C37_Prefix(collections[ty], collections'[ty])]_vars

\* C37 witness: in non-strict mode four messages from the Header on, a
\* rejected sync and a Header above the ceiling among them, stand in their
\* sequences in arrival order.
C37_Witness ==
    /\ ~fail_on_errors
    /\ pc = "decode"
    /\ nread = 4
    /\ {e.at : e \in StoredEntries} = 1..4
    /\ Len(collections["Header"]) = 2
    /\ collections["Header"][1].at = 1
    /\ collections["Header"][2].at = 4
    /\ "sync_before_last_full" \in logged
    /\ Len(collections["Temperature"]) = 1

====
